---- MODULE Spec2Model ----
(***************************************************************************)
(* Model of yosys' memory_bram pass (passes/memory/memory_bram.cc):        *)
(* handle_cell walks the match rules for one $mem cell, replace_cell binds *)
(* the cell's write and read ports to the ports of a bram type             *)
(* (duplicating the bram to gain read ports) and then emits the grid of    *)
(* bram cells.  Indices (ports, PortInfo positions, grid coordinates) are  *)
(* 0-based as in the source; a vector v is a sequence read with v[i+1].    *)
(***************************************************************************)
EXTENDS Integers, Sequences, FiniteSets, TLC

(* ------------------------------------------------------------------ *)
(* Bounds of the explored inputs                                        *)
(* ------------------------------------------------------------------ *)
MaxWrPorts == 2
MaxRdPorts == 3
MaxSize    == 4
MaxWidth   == 3
MaxRules   == 2
MaxAccess  == 3

VARIABLES
    rules,          \* rules_t: brams (name -> bram_t) and matches (vector<match_t>)
    cell,           \* the $mem cell: its parameters and port signals
    pc,             \* position in handle_cell / replace_cell
    rule_i,         \* handle_cell: loop index i over rules.matches
    failed_brams,   \* handle_cell: pool<IdString> failed_brams
    match_properties, \* handle_cell: dict<string,int> match_properties
    portinfos,      \* replace_cell: vector<portinfo_t>
    dup_count,
    clock_domains,
    clock_polarities,
    backup_clock_domains,
    backup_clock_polarities,
    grow_read_ports_cursor,
    try_growing_more_read_ports,
    cell_port_i,
    bram_port_i,
    grid,           \* replace_cell: the loop position <<grid_d, grid_a, dupidx>>
    module,         \* the enclosing module: added cells and gates, $mem presence
    dout_cache,     \* replace_cell: dict<SigSpec, pair<SigSpec, SigSpec>>
    trace,          \* history: rules visited, assigner calls, duplication steps
    mem,            \* simulation: contents of the original memory
    tiles,          \* simulation: contents of every emitted bram cell
    rd_out,         \* simulation: last read, <<port, original data, grid data>>
    naccess         \* simulation: number of accesses made

vars == <<rules, cell, pc, rule_i, failed_brams, match_properties, portinfos,
          dup_count, clock_domains, clock_polarities, backup_clock_domains,
          backup_clock_polarities, grow_read_ports_cursor,
          try_growing_more_read_ports, cell_port_i, bram_port_i, grid, module,
          dout_cache, trace, mem, tiles, rd_out, naccess>>

handle_vars  == <<rule_i, failed_brams, match_properties>>
assign_vars  == <<portinfos, dup_count, clock_domains, clock_polarities,
                  backup_clock_domains, backup_clock_polarities,
                  grow_read_ports_cursor, try_growing_more_read_ports,
                  cell_port_i, bram_port_i>>
stitch_vars  == <<grid, module, dout_cache>>
sim_vars     == <<mem, tiles, rd_out, naccess>>

(* ------------------------------------------------------------------ *)
(* Signals.  A SigBit is <<wire, offset>>; the constants State::S0, S1   *)
(* and Sx have no wire.                                                 *)
(* ------------------------------------------------------------------ *)
S0 == <<"S0", 0>>
S1 == <<"S1", 0>>
Sx == <<"Sx", 0>>

\* sig.wire != nullptr
IsWire(b) == b[1] \notin {"S0", "S1", "Sx"}

\* SigSpec::extract(offset, length)
extract(sig, offset, length) == SubSeq(sig, offset + 1, offset + length)

\* SigSpec::extend_u0(width): cut to width, or pad with zero bits
extend_u0(sig, width) ==
    IF Len(sig) > width THEN SubSeq(sig, 1, width)
    ELSE sig \o [k \in 1 .. (width - Len(sig)) |-> S0]

\* the bits <<wire, offset>> .. <<wire, offset+length-1>> of a wire
WireBits(wire, offset, length) == [k \in 1 .. length |-> <<wire, offset + k - 1>>]

\* 1 << n
Shl1(n) == 2 ^ n

Min(S) == CHOOSE x \in S : \A y \in S : x <= y
Max0(S) == IF S = {} THEN 0 ELSE CHOOSE x \in S : \A y \in S : y <= x

\* i < GetSize(v) ? v[i] : 0
VecAt(v, i) == IF i < Len(v) THEN v[i + 1] ELSE 0

(* ------------------------------------------------------------------ *)
(* rules_t::bram_t::make_portinfos                                      *)
(* effective_clkpol is not initialised by the source: garbage is the    *)
(* value the build happens to leave there.                              *)
(* ------------------------------------------------------------------ *)
NewPortInfo(bram, i, j, garbage) ==
    [ group |-> i, index |-> j, dupidx |-> 0,
      wrmode |-> VecAt(bram.wrmode, i),
      enable |-> VecAt(bram.enable, i),
      transp |-> VecAt(bram.transp, i),
      clocks |-> VecAt(bram.clocks, i),
      clkpol |-> VecAt(bram.clkpol, i),
      sig_clock |-> S0, sig_addr |-> <<>>, sig_data |-> <<>>, sig_en |-> <<>>,
      effective_clkpol |-> garbage,
      mapped_port |-> -1 ]

RECURSIVE GroupPortInfos(_, _, _)
GroupPortInfos(bram, i, garbage) ==
    IF ~(i < bram.groups /\ i < Len(bram.ports)) THEN <<>>
    ELSE [j \in 1 .. bram.ports[i + 1] |-> NewPortInfo(bram, i, j - 1, garbage)]
         \o GroupPortInfos(bram, i + 1, garbage)

make_portinfos(bram, garbage) == GroupPortInfos(bram, 0, garbage)

(* ------------------------------------------------------------------ *)
(* handle_cell: the rule under evaluation                               *)
(* ------------------------------------------------------------------ *)
CurMatch == rules.matches[rule_i + 1]
CurBram  == rules.brams[CurMatch.name]

\* lines 562-568: the properties of the cell known before any rule is tried
BaseProperties(c) ==
    [ words  |-> c.SIZE, abits |-> c.ABITS, dbits |-> c.WIDTH,
      wports |-> c.WR_PORTS, rports |-> c.RD_PORTS,
      bits   |-> c.SIZE * c.WIDTH,
      ports  |-> c.WR_PORTS + c.RD_PORTS ]

\* mutant of Awaste: the remainder 0 is not told apart
AwasteUnguarded(words, bram) ==
    Shl1(bram.abits) - (words % Shl1(bram.abits))

\* lines 588-597
Awaste(words, bram) ==
    LET aover == words % Shl1(bram.abits)
    IN  IF aover # 0 THEN Shl1(bram.abits) - aover ELSE 0

Dwaste(dbits, bram) ==
    LET dover == dbits % bram.dbits
    IN  IF dover # 0 THEN bram.dbits - dover ELSE 0

\* mutant of Waste: the bits wasted in both directions are counted twice
WasteOverlapTwice(awaste, dwaste, bram) ==
    awaste * bram.dbits + dwaste * Shl1(bram.abits)

Waste(awaste, dwaste, bram) ==
    awaste * bram.dbits + dwaste * Shl1(bram.abits) - awaste * dwaste

WasteProperties(props, bram) ==
    LET awaste == Awaste(props["words"], bram)
        dwaste == Dwaste(props["dbits"], bram)
    IN  ("awaste" :> awaste) @@ ("dwaste" :> dwaste)
        @@ ("waste" :> Waste(awaste, dwaste, bram)) @@ props

\* lines 602-611 and 612-621: one pass over a limits dict in its iteration
\* order; "fatal" is log_error, "reject" is goto next_match_rule
RECURSIVE ScanLimits(_, _, _, _)
ScanLimits(props, limits, k, ismin) ==
    IF k > Len(limits) THEN "ok"
    ELSE LET key == limits[k][1]
             lim == limits[k][2]
         IN  IF key \notin DOMAIN props THEN "fatal"
             ELSE IF (ismin /\ props[key] >= lim) \/ (~ismin /\ props[key] <= lim)
                  THEN ScanLimits(props, limits, k + 1, ismin)
                  ELSE "reject"

CheckLimits(props, match) ==
    LET r == ScanLimits(props, match.min_limits, 1, TRUE)
    IN  IF r = "ok" THEN ScanLimits(props, match.max_limits, 1, FALSE) ELSE r

(* ------------------------------------------------------------------ *)
(* replace_cell: locals                                                 *)
(* ------------------------------------------------------------------ *)
EmptyMap == <<>>

\* the values the locals of replace_cell hold while it is not running
NoAssignment ==
    /\ portinfos' = <<>>
    /\ dup_count' = 0
    /\ clock_domains' = EmptyMap
    /\ clock_polarities' = EmptyMap
    /\ backup_clock_domains' = EmptyMap
    /\ backup_clock_polarities' = EmptyMap
    /\ grow_read_ports_cursor' = -1
    /\ try_growing_more_read_ports' = FALSE
    /\ cell_port_i' = 0
    /\ bram_port_i' = 0

\* mutant of clocks_wr_ports: no clocks id is recorded for the write ports
clocks_wr_portsNone(bram) == {}

\* lines 237-245, over the PortInfos of replica 0
clocks_wr_ports(bram) ==
    LET pis == make_portinfos(bram, FALSE)
    IN  {pis[k].clocks : k \in {n \in DOMAIN pis : pis[n].wrmode # 0}}

clkpol_wr_ports(bram) ==
    LET pis == make_portinfos(bram, FALSE)
    IN  {pis[k].clkpol : k \in {n \in DOMAIN pis : pis[n].wrmode # 0 /\ pis[n].clkpol > 1}}

clocks_max(bram) ==
    LET pis == make_portinfos(bram, FALSE)
    IN  Max0({pis[k].clocks : k \in DOMAIN pis} \cup {0})

clkpol_max(bram) ==
    LET pis == make_portinfos(bram, FALSE)
    IN  Max0({pis[k].clkpol : k \in DOMAIN pis} \cup {0})

\* lines 283-285 and 394-396
Clkdom(clken, clkpol, clksig) ==
    IF clken THEN <<clksig, clkpol>> ELSE <<S1, FALSE>>

\* mutant of ClockCompatible: the polarity of the cohort is not compared
ClockCompatibleAnyPolarity(pi, clken, clkpol, clkdom) ==
    IF clken
    THEN /\ pi.clocks # 0
         /\ ~(pi.clocks \in DOMAIN clock_domains /\ clock_domains[pi.clocks] # clkdom)
    ELSE pi.clocks = 0

\* lines 299-317 and 410-428: the clock checks a PortInfo must pass
ClockCompatible(pi, clken, clkpol, clkdom) ==
    IF clken
    THEN /\ pi.clocks # 0
         /\ ~(pi.clocks \in DOMAIN clock_domains /\ clock_domains[pi.clocks] # clkdom)
         /\ ~(pi.clkpol \in DOMAIN clock_polarities
                /\ clock_polarities[pi.clkpol] # clkpol)
    ELSE pi.clocks = 0

\* lines 319-330: the scan of the port's mem_width enable bits; en is
\* wr_en[cell_port_i*mem_width ..], i the loop index
RECURSIVE EnableScan(_, _, _, _, _, _)
EnableScan(pi, dbits, en, i, last_en_bit, sig_en) ==
    IF i >= Len(en) THEN [ok |-> TRUE, sig_en |-> sig_en]
    ELSE LET first == pi.enable # 0 /\ i % (dbits \div pi.enable) = 0
             last  == IF first THEN en[i + 1] ELSE last_en_bit
             sen   == IF first THEN Append(sig_en, last) ELSE sig_en
         IN  IF last # en[i + 1] THEN [ok |-> FALSE, sig_en |-> sen]
             ELSE EnableScan(pi, dbits, en, i + 1, last, sen)

\* mutant of EnableStructure: the enable bits are sampled, never compared
EnableStructureUnchecked(pi, bram, w) ==
    LET en == extract(cell.WR_EN, w * cell.WIDTH, cell.WIDTH)
        lw == IF pi.enable # 0 THEN bram.dbits \div pi.enable ELSE 1
    IN  [ok |-> TRUE,
         sig_en |-> IF pi.enable = 0 THEN <<>>
                    ELSE [l \in 1 .. ((Len(en) + lw - 1) \div lw) |-> en[(l - 1) * lw + 1]]]

\* mutant of EnableStructure: the scan starts from the port's first enable
\* bit instead of the constant 1
EnableStructureFromFirstBit(pi, bram, w) ==
    LET en == extract(cell.WR_EN, w * cell.WIDTH, cell.WIDTH)
    IN  EnableScan(pi, bram.dbits, en, 0, IF Len(en) > 0 THEN en[1] ELSE S1, <<>>)

EnableStructure(pi, bram, w) ==
    EnableScan(pi, bram.dbits, extract(cell.WR_EN, w * cell.WIDTH, cell.WIDTH), 0, S1, <<>>)

\* lines 295-330: PortInfo pi accepts write port w
WritePortFits(pi, bram, w) ==
    LET clken  == cell.WR_CLK_ENABLE[w + 1]
        clkpol == cell.WR_CLK_POLARITY[w + 1]
        clkdom == Clkdom(clken, clkpol, cell.WR_CLK[w + 1])
    IN  /\ pi.wrmode = 1
        /\ ClockCompatible(pi, clken, clkpol, clkdom)
        /\ EnableStructure(pi, bram, w).ok

\* lines 333-344
BindWritePort(pi, bram, w) ==
    LET clken  == cell.WR_CLK_ENABLE[w + 1]
        clkdom == Clkdom(clken, cell.WR_CLK_POLARITY[w + 1], cell.WR_CLK[w + 1])
        bound  == [pi EXCEPT !.mapped_port = w,
                             !.sig_en   = EnableStructure(pi, bram, w).sig_en,
                             !.sig_addr = extract(cell.WR_ADDR, w * cell.ABITS, cell.ABITS),
                             !.sig_data = extract(cell.WR_DATA, w * cell.WIDTH, cell.WIDTH)]
    IN  IF clken
        THEN [bound EXCEPT !.sig_clock = clkdom[1], !.effective_clkpol = clkdom[2]]
        ELSE bound

\* mutant of BindDomains: the domain of a bound cohort is not recorded
BindDomainsNever(pi, clken, clkdom) == clock_domains

\* lines 335-338 and 433-436: the cohort maps after a bind
BindDomains(pi, clken, clkdom) ==
    IF clken THEN (pi.clocks :> clkdom) @@ clock_domains ELSE clock_domains

BindPolarities(pi, clken, clkdom) ==
    IF clken THEN (pi.clkpol :> clkdom[2]) @@ clock_polarities ELSE clock_polarities

(* ------------------------------------------------------------------ *)
(* handle_cell (lines 557-636)                                          *)
(* ------------------------------------------------------------------ *)
\* lines 224-235 and 277: replace_cell starts on the accepted rule's bram
EnterReplaceCell(bram, garbage) ==
    /\ portinfos' = make_portinfos(bram, garbage)
    /\ dup_count' = 1
    /\ clock_domains' = EmptyMap
    /\ clock_polarities' = (0 :> FALSE) @@ (1 :> TRUE)
    /\ backup_clock_domains' = EmptyMap
    /\ backup_clock_polarities' = EmptyMap
    /\ grow_read_ports_cursor' = -1
    /\ try_growing_more_read_ports' = FALSE
    /\ cell_port_i' = 0
    /\ bram_port_i' = 0

\* mutant of ReturnFalse: the bram is not remembered as failed
ReturnFalseForgetting ==
    /\ pc' = "rule"
    /\ rule_i' = rule_i + 1
    /\ failed_brams' = failed_brams
    /\ trace' = Append(trace, <<"failed", rule_i>>)
    /\ NoAssignment
    /\ UNCHANGED match_properties

\* lines 625-629: replace_cell returned false
ReturnFalse ==
    /\ pc' = "rule"
    /\ rule_i' = rule_i + 1
    /\ failed_brams' = failed_brams \cup {CurMatch.name}
    /\ trace' = Append(trace, <<"failed", rule_i>>)
    /\ NoAssignment
    /\ UNCHANGED match_properties

\* one iteration of the loop over rules.matches, up to the call of
\* replace_cell (lines 577-625)
MatchRule ==
    /\ pc = "rule"
    /\ rule_i < Len(rules.matches)
    /\ LET match == CurMatch
           seen  == Append(trace, <<"visit", rule_i>>)
       IN  IF match.name \notin DOMAIN rules.brams
           THEN /\ pc' = "fatal"
                /\ trace' = seen
                /\ UNCHANGED <<handle_vars, assign_vars>>
           ELSE IF match.name \in failed_brams
           THEN /\ pc' = "rule"
                /\ rule_i' = rule_i + 1
                /\ trace' = seen
                /\ UNCHANGED <<failed_brams, match_properties, assign_vars>>
           ELSE LET props == WasteProperties(match_properties, CurBram)
                    r     == CheckLimits(props, match)
                IN  /\ match_properties' = props
                    /\ UNCHANGED failed_brams
                    /\ CASE r = "fatal" ->
                              /\ pc' = "fatal"
                              /\ trace' = seen
                              /\ UNCHANGED <<rule_i, assign_vars>>
                         [] r = "reject" ->
                              /\ pc' = "rule"
                              /\ rule_i' = rule_i + 1
                              /\ trace' = seen
                              /\ UNCHANGED assign_vars
                         [] OTHER ->
                              /\ pc' = "wr_port"
                              /\ trace' = Append(seen, <<"call", rule_i>>)
                              /\ UNCHANGED rule_i
                              /\ \E garbage \in BOOLEAN : EnterReplaceCell(CurBram, garbage)
    /\ UNCHANGED <<rules, cell, stitch_vars, sim_vars>>

\* line 635: every rule was visited
Exhausted ==
    /\ pc = "rule"
    /\ rule_i >= Len(rules.matches)
    /\ pc' = "done"
    /\ trace' = Append(trace, <<"none", rule_i>>)
    /\ UNCHANGED <<rules, cell, handle_vars, assign_vars, stitch_vars, sim_vars>>

(* ------------------------------------------------------------------ *)
(* replace_cell: write ports (lines 277-353)                            *)
(* ------------------------------------------------------------------ *)
\* mutant of FirstWritePort: the search starts at the first PortInfo
FirstWritePortFromStart(bram, w) ==
    LET fits == {j \in 0 .. Len(portinfos) - 1 :
                    WritePortFits(portinfos[j + 1], bram, w)}
    IN  IF fits = {} THEN -1 ELSE Min(fits)

\* lines 291-348: the first PortInfo at or after the cursor that accepts
\* write port w, or -1
FirstWritePort(bram, w) ==
    LET fits == {j \in bram_port_i .. Len(portinfos) - 1 :
                    WritePortFits(portinfos[j + 1], bram, w)}
    IN  IF fits = {} THEN -1 ELSE Min(fits)

MapWritePort ==
    /\ pc = "wr_port"
    /\ cell_port_i < cell.WR_PORTS
    /\ LET w == cell_port_i
           j == FirstWritePort(CurBram, w)
       IN  IF j < 0
           THEN ReturnFalse
           ELSE LET pi     == portinfos[j + 1]
                    clken  == cell.WR_CLK_ENABLE[w + 1]
                    clkdom == Clkdom(clken, cell.WR_CLK_POLARITY[w + 1], cell.WR_CLK[w + 1])
                IN  /\ portinfos' = [portinfos EXCEPT ![j + 1] = BindWritePort(pi, CurBram, w)]
                    /\ clock_domains' = BindDomains(pi, clken, clkdom)
                    /\ clock_polarities' = BindPolarities(pi, clken, clkdom)
                    /\ bram_port_i' = j + 1
                    /\ cell_port_i' = w + 1
                    /\ pc' = "wr_port"
                    /\ UNCHANGED <<handle_vars, trace, dup_count, backup_clock_domains,
                                   backup_clock_polarities, grow_read_ports_cursor,
                                   try_growing_more_read_ports>>
    /\ UNCHANGED <<rules, cell, stitch_vars, sim_vars>>

\* lines 355-358: the write ports are bound; snapshot the cohort maps
BeginReadPhase ==
    /\ pc = "wr_port"
    /\ cell_port_i >= cell.WR_PORTS
    /\ grow_read_ports_cursor' = -1
    /\ try_growing_more_read_ports' = FALSE
    /\ backup_clock_domains' = clock_domains
    /\ backup_clock_polarities' = clock_polarities
    /\ cell_port_i' = 0
    /\ bram_port_i' = 0
    /\ pc' = "rd_port"
    /\ UNCHANGED <<rules, cell, handle_vars, trace, portinfos, dup_count,
                   clock_domains, clock_polarities, stitch_vars, sim_vars>>

(* ------------------------------------------------------------------ *)
(* replace_cell: read ports and duplication (lines 360-457)             *)
(* ------------------------------------------------------------------ *)
\* mutant of ReadPortFits: the test mapped_port >= 0 is dropped
ReadPortFitsBound(pi, r) ==
    LET clken  == cell.RD_CLK_ENABLE[r + 1]
        clkpol == cell.RD_CLK_POLARITY[r + 1]
        clkdom == Clkdom(clken, clkpol, cell.RD_CLK[r + 1])
    IN  /\ pi.wrmode = 0
        /\ ClockCompatible(pi, clken, clkpol, clkdom)

\* lines 406-428: PortInfo pi accepts read port r
ReadPortFits(pi, r) ==
    LET clken  == cell.RD_CLK_ENABLE[r + 1]
        clkpol == cell.RD_CLK_POLARITY[r + 1]
        clkdom == Clkdom(clken, clkpol, cell.RD_CLK[r + 1])
    IN  /\ ~(pi.wrmode # 0 \/ pi.mapped_port >= 0)
        /\ ClockCompatible(pi, clken, clkpol, clkdom)

\* lines 402-448: the first PortInfo that accepts read port r, or -1
FirstReadPort(r) ==
    LET fits == {j \in 0 .. Len(portinfos) - 1 : ReadPortFits(portinfos[j + 1], r)}
    IN  IF fits = {} THEN -1 ELSE Min(fits)

\* lines 431-441
BindReadPort(pi, r) ==
    LET clken  == cell.RD_CLK_ENABLE[r + 1]
        clkdom == Clkdom(clken, cell.RD_CLK_POLARITY[r + 1], cell.RD_CLK[r + 1])
        bound  == [pi EXCEPT !.mapped_port = r,
                             !.sig_addr = extract(cell.RD_ADDR, r * cell.ABITS, cell.ABITS),
                             !.sig_data = extract(cell.RD_DATA, r * cell.WIDTH, cell.WIDTH)]
    IN  IF clken
        THEN [bound EXCEPT !.sig_clock = clkdom[1], !.effective_clkpol = clkdom[2]]
        ELSE bound

MapReadPort ==
    /\ pc = "rd_port"
    /\ cell_port_i < cell.RD_PORTS
    /\ LET r == cell_port_i
           j == FirstReadPort(r)
       IN  IF j < 0
           THEN IF try_growing_more_read_ports
                THEN /\ pc' = "grow"
                     /\ UNCHANGED <<handle_vars, trace, assign_vars>>
                ELSE ReturnFalse
           ELSE LET pi     == portinfos[j + 1]
                    clken  == cell.RD_CLK_ENABLE[r + 1]
                    clkdom == Clkdom(clken, cell.RD_CLK_POLARITY[r + 1], cell.RD_CLK[r + 1])
                IN  /\ portinfos' = [portinfos EXCEPT ![j + 1] = BindReadPort(pi, r)]
                    /\ clock_domains' = BindDomains(pi, clken, clkdom)
                    /\ clock_polarities' = BindPolarities(pi, clken, clkdom)
                    /\ grow_read_ports_cursor' =
                           IF grow_read_ports_cursor < r THEN r ELSE grow_read_ports_cursor
                    /\ try_growing_more_read_ports' =
                           IF grow_read_ports_cursor < r THEN TRUE
                           ELSE try_growing_more_read_ports
                    /\ cell_port_i' = r + 1
                    /\ pc' = "rd_port"
                    /\ UNCHANGED <<handle_vars, trace, dup_count, backup_clock_domains,
                                   backup_clock_polarities, bram_port_i>>
    /\ UNCHANGED <<rules, cell, stitch_vars, sim_vars>>

\* mutant of Unbind: a read-mode PortInfo keeps its binding
UnbindKeeping(pi) == pi

\* lines 364-370: a read-mode PortInfo loses its binding
Unbind(pi) ==
    IF pi.wrmode = 0
    THEN [pi EXCEPT !.mapped_port = -1, !.sig_clock = S0, !.sig_addr = <<>>,
                    !.sig_data = <<>>, !.sig_en = <<>>]
    ELSE pi

\* mutant of Replica: the copy keeps the replica number of its original
ReplicaSameDupidx(pi, bram) ==
    [pi EXCEPT !.clocks = IF pi.clocks # 0 /\ pi.clocks \notin clocks_wr_ports(bram)
                          THEN pi.clocks + clocks_max(bram) ELSE pi.clocks,
               !.clkpol = IF pi.clkpol > 1 /\ pi.clkpol \notin clkpol_wr_ports(bram)
                          THEN pi.clkpol + clkpol_max(bram) ELSE pi.clkpol]

\* lines 373-377: the copy of a PortInfo of the last replica for the new one
Replica(pi, bram) ==
    [pi EXCEPT !.clocks = IF pi.clocks # 0 /\ pi.clocks \notin clocks_wr_ports(bram)
                          THEN pi.clocks + clocks_max(bram) ELSE pi.clocks,
               !.clkpol = IF pi.clkpol > 1 /\ pi.clkpol \notin clkpol_wr_ports(bram)
                          THEN pi.clkpol + clkpol_max(bram) ELSE pi.clkpol,
               !.dupidx = pi.dupidx + 1]

\* lines 362-380: new_portinfos
RECURSIVE new_portinfos(_, _, _, _)
new_portinfos(pis, k, dups, bram) ==
    IF k > Len(pis) THEN <<>>
    ELSE LET pi == Unbind(pis[k])
         IN  (IF pi.dupidx = dups - 1 THEN <<pi, Replica(pi, bram)>> ELSE <<pi>>)
             \o new_portinfos(pis, k + 1, dups, bram)

\* mutant of GrowReadPorts: try_growing_more_read_ports is not cleared
GrowReadPortsKeepTrying ==
    /\ pc = "grow"
    /\ portinfos' = new_portinfos(portinfos, 1, dup_count, CurBram)
    /\ clock_domains' = backup_clock_domains
    /\ clock_polarities' = backup_clock_polarities
    /\ dup_count' = dup_count + 1
    /\ cell_port_i' = 0
    /\ pc' = "rd_port"
    /\ trace' = Append(trace, <<"grow", cell_port_i, grow_read_ports_cursor>>)
    /\ UNCHANGED <<rules, cell, handle_vars, backup_clock_domains,
                   backup_clock_polarities, grow_read_ports_cursor, bram_port_i,
                   try_growing_more_read_ports, stitch_vars, sim_vars>>

\* lines 361-386 and the restart of the read-port loop at line 388
GrowReadPorts ==
    /\ pc = "grow"
    /\ portinfos' = new_portinfos(portinfos, 1, dup_count, CurBram)
    /\ try_growing_more_read_ports' = FALSE
    /\ clock_domains' = backup_clock_domains
    /\ clock_polarities' = backup_clock_polarities
    /\ dup_count' = dup_count + 1
    /\ cell_port_i' = 0
    /\ pc' = "rd_port"
    /\ trace' = Append(trace, <<"grow", cell_port_i, grow_read_ports_cursor>>)
    /\ UNCHANGED <<rules, cell, handle_vars, backup_clock_domains,
                   backup_clock_polarities, grow_read_ports_cursor, bram_port_i,
                   stitch_vars, sim_vars>>

(* ------------------------------------------------------------------ *)
(* replace_cell: the grid of bram cells (lines 459-537)                 *)
(* ------------------------------------------------------------------ *)
NoModule == [mem_present |-> TRUE, cells |-> <<>>, gates |-> <<>>, drivers |-> {}]

\* mutant of GridPos: the loop conditions of grid_d and grid_a take <=
RECURSIVE GridPosInclusive(_, _, _, _, _)
GridPosInclusive(bram, dups, gd, ga, du) ==
    IF ~(gd * bram.dbits <= cell.WIDTH) THEN <<-1, -1, -1>>
    ELSE IF ~(ga * Shl1(bram.abits) <= cell.SIZE)
         THEN GridPosInclusive(bram, dups, gd + 1, 0, 0)
    ELSE IF ~(du < dups) THEN GridPosInclusive(bram, dups, gd, ga + 1, 0)
    ELSE <<gd, ga, du>>

\* the three nested for loops of lines 461-463: the first position at or
\* after <<gd, ga, du>> whose loop conditions hold, or <<-1,-1,-1>> at the end
RECURSIVE GridPos(_, _, _, _, _)
GridPos(bram, dups, gd, ga, du) ==
    IF ~(gd * bram.dbits < cell.WIDTH) THEN <<-1, -1, -1>>
    ELSE IF ~(ga * Shl1(bram.abits) < cell.SIZE) THEN GridPos(bram, dups, gd + 1, 0, 0)
    ELSE IF ~(du < dups) THEN GridPos(bram, dups, gd, ga + 1, 0)
    ELSE <<gd, ga, du>>

\* mutant of addr_ok: the address is compared with tile 0 in every tile
addr_okTileZero(pi, bram, ga) ==
    IF Len(pi.sig_addr) > bram.abits
    THEN LET extra_addr == extract(pi.sig_addr, bram.abits, Len(pi.sig_addr) - bram.abits)
         IN  << [extra_addr |-> extra_addr, sel |-> 0,
                 q |-> FALSE, clk |-> S0, pol |-> FALSE] >>
    ELSE <<>>

\* lines 481-486: Eq(extra_addr, grid_a); sel is SigSpec(grid_a, width)
addr_ok(pi, bram, ga) ==
    IF Len(pi.sig_addr) > bram.abits
    THEN LET extra_addr == extract(pi.sig_addr, bram.abits, Len(pi.sig_addr) - bram.abits)
         IN  << [extra_addr |-> extra_addr, sel |-> ga % Shl1(Len(extra_addr)),
                 q |-> FALSE, clk |-> S0, pol |-> FALSE] >>
    ELSE <<>>

\* lines 516-520: the selector registered by addDff
addr_ok_q(pi, ok) ==
    IF pi.clocks # 0 /\ ok # <<>>
    THEN << [ok[1] EXCEPT !.q = TRUE, !.clk = pi.sig_clock, !.pol = pi.effective_clkpol] >>
    ELSE ok

\* lines 490-492
EnSlice(pi, gd) ==
    extract(extend_u0(pi.sig_en, (gd + 1) * pi.enable), gd * pi.enable, pi.enable)

\* lines 500-502
DataSlice(pi, bram, gd) ==
    extract(extend_u0(pi.sig_data, (gd + 1) * bram.dbits), gd * bram.dbits, bram.dbits)

\* lines 510-514: the bits of sig whose bit of sig_data is a wire
RECURSIVE Prune(_, _, _)
Prune(sig_data, sig, k) ==
    IF k > Len(sig_data) THEN <<>>
    ELSE (IF IsWire(sig_data[k]) THEN <<sig[k]>> ELSE <<>>) \o Prune(sig_data, sig, k + 1)

\* mutant of CacheAppend: only the selector of the first tile is collected
CacheAppendOneSelector(cache, key, sel, dout) ==
    LET old == IF key \in DOMAIN cache THEN cache[key]
               ELSE [first |-> <<>>, second |-> <<>>]
    IN  (key :> [first |-> IF old.first = <<>> THEN sel ELSE old.first,
                 second |-> old.second \o dout]) @@ cache

\* dout_cache[key].first.append(sel); dout_cache[key].second.append(dout)
CacheAppend(cache, key, sel, dout) ==
    LET old == IF key \in DOMAIN cache THEN cache[key]
               ELSE [first |-> <<>>, second |-> <<>>]
    IN  (key :> [first |-> old.first \o sel, second |-> old.second \o dout]) @@ cache

\* lines 470-529: the loop over the PortInfos for the cell numbered cellno
\* at <<gd, ga, du>>; acc holds the cell's ports and clocks, the gates
\* added and the cache
RECURSIVE EmitPorts(_, _, _, _, _, _, _)
EmitPorts(bram, cellno, gd, ga, du, k, acc) ==
    IF k > Len(portinfos) THEN acc
    ELSE LET pi == portinfos[k] IN
         IF pi.dupidx # du THEN EmitPorts(bram, cellno, gd, ga, du, k + 1, acc)
         ELSE
         LET clocks == IF pi.clocks # 0
                          /\ (pi.clocks \notin DOMAIN acc.clocks \/ IsWire(pi.sig_clock))
                       THEN (pi.clocks :> pi.sig_clock) @@ acc.clocks
                       ELSE acc.clocks
             ok     == addr_ok(pi, bram, ga)
             gated  == pi.enable # 0 /\ ok # <<>>
             sig_data  == DataSlice(pi, bram, gd)
             bram_dout == WireBits("dout", (cellno * Len(portinfos) + (k - 1)) * bram.dbits,
                                   bram.dbits)
             okq    == addr_ok_q(pi, ok)
             port   == [ group |-> pi.group, index |-> pi.index, wrmode |-> pi.wrmode,
                         has_en |-> pi.enable # 0,
                         EN |-> IF pi.enable # 0 THEN EnSlice(pi, gd) ELSE <<>>,
                         en_gate |-> IF gated THEN ok ELSE <<>>,
                         DATA |-> IF pi.wrmode = 1 THEN sig_data ELSE bram_dout,
                         ADDR |-> extend_u0(pi.sig_addr, bram.abits) ]
             gates  == (IF ok # <<>> THEN <<"Eq">> ELSE <<>>)
                       \o (IF gated THEN <<"Mux">> ELSE <<>>)
                       \o (IF pi.wrmode # 1 /\ okq # ok THEN <<"Dff">> ELSE <<>>)
             cache  == IF pi.wrmode = 1 THEN acc.cache
                       ELSE CacheAppend(acc.cache, Prune(sig_data, sig_data, 1), okq,
                                        Prune(sig_data, bram_dout, 1))
         IN  EmitPorts(bram, cellno, gd, ga, du, k + 1,
                       [ports |-> Append(acc.ports, port), clocks |-> clocks,
                        gates |-> acc.gates \o gates, cache |-> cache])

\* (k-1) % max + 1: the number in the name of the CLK port or CLKPOL
\* parameter of cohort id k
CohortName(k, max) == ((k - 1) % max) + 1

\* lines 531-532: the CLK<n> ports of a cell
ClkPorts(bram, clocks) ==
    [n \in {CohortName(k, clocks_max(bram)) : k \in DOMAIN clocks} |->
        clocks[CHOOSE k \in DOMAIN clocks : CohortName(k, clocks_max(bram)) = n]]

\* lines 534-536: the names CLKPOL<n> set on a cell, and the cohort ids
\* of clock_polarities that set name n
ClkpolNames(bram) ==
    {CohortName(k, clkpol_max(bram)) : k \in {x \in DOMAIN clock_polarities : x > 1}}

ClkpolIds(bram, n) ==
    {k \in DOMAIN clock_polarities : k > 1 /\ CohortName(k, clkpol_max(bram)) = n}

\* mutant of BeginGrid: the $mem cell is removed before the grid is built
BeginGridRemovingCell ==
    /\ pc = "rd_port"
    /\ cell_port_i >= cell.RD_PORTS
    /\ dout_cache' = EmptyMap
    /\ grid' = GridPos(CurBram, dup_count, 0, 0, 0)
    /\ pc' = IF grid'[1] < 0 THEN "dout" ELSE "grid"
    /\ module' = [module EXCEPT !.mem_present = FALSE]
    /\ UNCHANGED <<rules, cell, handle_vars, trace, assign_vars, sim_vars>>

\* lines 355-358 are done and every read port is bound: enter the grid loops
BeginGrid ==
    /\ pc = "rd_port"
    /\ cell_port_i >= cell.RD_PORTS
    /\ dout_cache' = EmptyMap
    /\ grid' = GridPos(CurBram, dup_count, 0, 0, 0)
    /\ pc' = IF grid'[1] < 0 THEN "dout" ELSE "grid"
    /\ UNCHANGED <<rules, cell, handle_vars, trace, assign_vars, module, sim_vars>>

\* one pass of the loop body, lines 464-537: one bram cell is added.  When
\* several cohort ids of clock_polarities set the same CLKPOL<n>, the last
\* one iterated wins; the iteration order of the dict is not fixed here.
EmitCell ==
    /\ pc = "grid"
    /\ LET bram == CurBram
           acc  == EmitPorts(bram, Len(module.cells), grid[1], grid[2], grid[3], 1,
                             [ports |-> <<>>, clocks |-> EmptyMap, gates |-> <<>>,
                              cache |-> dout_cache])
       IN  /\ \E clkpol \in [ClkpolNames(bram) -> BOOLEAN] :
                 /\ \A n \in ClkpolNames(bram) :
                       \E k \in ClkpolIds(bram, n) : clkpol[n] = clock_polarities[k]
                 /\ module' = [module EXCEPT
                       !.cells = Append(@, [ type |-> bram.name,
                                             grid_d |-> grid[1], grid_a |-> grid[2],
                                             dupidx |-> grid[3],
                                             ports |-> acc.ports,
                                             CLK |-> ClkPorts(bram, acc.clocks),
                                             CLKPOL |-> clkpol ]),
                       !.gates = @ \o acc.gates]
           /\ dout_cache' = acc.cache
           /\ grid' = GridPos(bram, dup_count, grid[1], grid[2], grid[3] + 1)
           /\ pc' = IF grid'[1] < 0 THEN "dout" ELSE "grid"
    /\ UNCHANGED <<rules, cell, handle_vars, trace, assign_vars, sim_vars>>

\* lines 543 and 548: the two log_asserts on a cache entry
DoutAssert(key, entry) ==
    IF entry.first = <<>>
    THEN Len(key) = Len(entry.second)
    ELSE Len(key) * Len(entry.first) = Len(entry.second)

\* lines 544 and 549: the connection or the Pmux driving a read slice
DoutDriver(key, entry) ==
    [ type |-> IF entry.first = <<>> THEN "connect" ELSE "Pmux",
      Y |-> key, S |-> entry.first, B |-> entry.second ]

\* lines 539-551: the read data is resolved; a failed log_assert aborts
ResolveDout ==
    /\ pc = "dout"
    /\ IF \A key \in DOMAIN dout_cache : DoutAssert(key, dout_cache[key])
       THEN /\ module' = [module EXCEPT !.drivers =
                              {DoutDriver(key, dout_cache[key]) : key \in DOMAIN dout_cache}]
            /\ pc' = "remove"
       ELSE /\ pc' = "abort"
            /\ UNCHANGED module
    /\ UNCHANGED <<rules, cell, handle_vars, trace, assign_vars, grid, dout_cache, sim_vars>>

\* lines 553-554 and 630: the $mem cell is removed, handle_cell returns
RemoveCell ==
    /\ pc = "remove"
    /\ module' = [module EXCEPT !.mem_present = FALSE]
    /\ pc' = "done"
    /\ trace' = Append(trace, <<"replaced", rule_i>>)
    /\ UNCHANGED <<rules, cell, handle_vars, assign_vars, grid, dout_cache, sim_vars>>

(* ------------------------------------------------------------------ *)
(* Inputs: bram descriptions, match rules and $mem cells                *)
(* ------------------------------------------------------------------ *)
Bram(name, abits, dbits, ports, wrmode, enable, clocks, clkpol) ==
    [ name |-> name, groups |-> Len(ports), abits |-> abits, dbits |-> dbits,
      init |-> 0, ports |-> ports, wrmode |-> wrmode, enable |-> enable,
      transp |-> [g \in 1 .. Len(ports) |-> 0], clocks |-> clocks, clkpol |-> clkpol ]

\* two byte enables where dbits splits in two lanes, else one
Lanes2(dbits) == IF dbits % 2 = 0 THEN 2 ELSE 1

\* the bram types explored, for a given abits and dbits:
\*   R    one clocked write port, fixed positive edge
\*   R2   a write and a read port sharing clock and configurable polarity
\*   SDP  a write and a read port with clocks and polarities of their own
\*   RF   a clocked write port without enable bits, two asynchronous read ports
\*   W2   two write groups of different enable granularity, one read port
\*   FIX  as R2 with the enable and clkpol vectors cut short (value 0)
\*   RW   a read group of two ports declared before the write group
BramTypes(abits, dbits) ==
    { Bram("R",   abits, dbits, <<1>>, <<1>>, <<1>>, <<1>>, <<1>>),
      Bram("R2",  abits, dbits, <<1, 1>>, <<1, 0>>, <<1, 0>>, <<1, 1>>, <<2, 2>>),
      Bram("SDP", abits, dbits, <<1, 1>>, <<1, 0>>, <<Lanes2(dbits), 0>>, <<1, 2>>, <<2, 3>>),
      Bram("RF",  abits, dbits, <<1, 2>>, <<1, 0>>, <<0, 0>>, <<1, 0>>, <<1, 0>>),
      Bram("W2",  abits, dbits, <<1, 1, 1>>, <<1, 1, 0>>, <<1, Lanes2(dbits), 0>>,
                  <<1, 1, 2>>, <<2, 2, 3>>),
      Bram("FIX", abits, dbits, <<1, 1>>, <<1, 0>>, <<1>>, <<1, 1>>, <<>>),
      Bram("RW",  abits, dbits, <<2, 1>>, <<0, 1>>, <<0, 1>>, <<2, 1>>, <<3, 2>>) }

NoLimits(name) == [name |-> name, min_limits |-> <<>>, max_limits |-> <<>>]

\* a rules file holding one bram and one match rule without limits
OneRule(bram) ==
    [brams |-> (bram.name :> bram), matches |-> <<NoLimits(bram.name)>>]

clkA == <<"clkA", 0>>
clkB == <<"clkB", 0>>

\* the clocking of a memory port: asynchronous, or a clock and an edge
PortClocks ==
    { [clken |-> FALSE, clkpol |-> FALSE, clk |-> Sx],
      [clken |-> TRUE,  clkpol |-> TRUE,  clk |-> clkA],
      [clken |-> TRUE,  clkpol |-> FALSE, clk |-> clkA],
      [clken |-> TRUE,  clkpol |-> TRUE,  clk |-> clkB] }

\* the driver of bit j of the enable of write port w: the constant 1, one
\* wire for the whole port, or one wire per bit
EnPatterns == {"const1", "uniform", "perbit"}

EnBit(pat, w, width, j) ==
    CASE pat = "const1"  -> S1
      [] pat = "uniform" -> <<"wr_we", w>>
      [] OTHER           -> <<"wr_en", w * width + j>>

WrProfiles == {[clock |-> c, en |-> e] : c \in PortClocks, e \in EnPatterns}

SeqsUpTo(S, n) == UNION {[1 .. k -> S] : k \in 0 .. n}

\* the $mem cell with the given shape, write ports wr and read ports rd
MemCell(size, abits, width, wr, rd) ==
    [ SIZE |-> size, ABITS |-> abits, WIDTH |-> width,
      WR_PORTS |-> Len(wr), RD_PORTS |-> Len(rd),
      WR_CLK_ENABLE   |-> [w \in 1 .. Len(wr) |-> wr[w].clock.clken],
      WR_CLK_POLARITY |-> [w \in 1 .. Len(wr) |-> wr[w].clock.clkpol],
      WR_CLK  |-> [w \in 1 .. Len(wr) |-> wr[w].clock.clk],
      WR_EN   |-> [k \in 1 .. Len(wr) * width |->
                      EnBit(wr[((k - 1) \div width) + 1].en, (k - 1) \div width, width,
                            (k - 1) % width)],
      WR_DATA |-> WireBits("wr_data", 0, Len(wr) * width),
      WR_ADDR |-> WireBits("wr_addr", 0, Len(wr) * abits),
      RD_CLK_ENABLE   |-> [r \in 1 .. Len(rd) |-> rd[r].clken],
      RD_CLK_POLARITY |-> [r \in 1 .. Len(rd) |-> rd[r].clkpol],
      RD_TRANSPARENT  |-> [r \in 1 .. Len(rd) |-> FALSE],
      RD_CLK  |-> [r \in 1 .. Len(rd) |-> rd[r].clk],
      RD_DATA |-> WireBits("rd_data", 0, Len(rd) * width),
      RD_ADDR |-> WireBits("rd_addr", 0, Len(rd) * abits) ]

\* handle_cell is entered for cell c under rules rs (lines 559-575)
Start(rs, c) ==
    /\ rules = rs
    /\ cell = c
    /\ pc = "rule"
    /\ rule_i = 0
    /\ failed_brams = {}
    /\ match_properties = BaseProperties(c)
    /\ portinfos = <<>>
    /\ dup_count = 0
    /\ clock_domains = EmptyMap
    /\ clock_polarities = EmptyMap
    /\ backup_clock_domains = EmptyMap
    /\ backup_clock_polarities = EmptyMap
    /\ grow_read_ports_cursor = -1
    /\ try_growing_more_read_ports = FALSE
    /\ cell_port_i = 0
    /\ bram_port_i = 0
    /\ grid = <<0, 0, 0>>
    /\ module = NoModule
    /\ dout_cache = EmptyMap
    /\ trace = <<>>
    /\ mem = <<>>
    /\ tiles = <<>>
    /\ rd_out = <<>>
    /\ naccess = 0

\* the write ports tried together: a constant enable on the rising edge of
\* clkA only, an asynchronous port with one enable wire only
WrProfilesTogether ==
    {p \in WrProfiles :
        /\ p.en = "const1" => (p.clock.clkpol /\ p.clock.clk = clkA)
        /\ ~p.clock.clken => p.en = "uniform"}

\* port assignment: a 2-word, 2-bit memory with up to MaxWrPorts write
\* ports and no read port; or with at most one write port on clkA, of one
\* enable wire, and up to MaxRdPorts read ports; or with one write port and
\* up to MaxRdPorts read ports clocked as the write port is; against each
\* bram type
PortCells ==
    {MemCell(2, 1, 2, wr, <<>>) : wr \in SeqsUpTo(WrProfilesTogether, MaxWrPorts)}
    \cup {MemCell(2, 1, 2, wr, rd) :
            wr \in SeqsUpTo({p \in WrProfiles : p.en = "uniform" /\ p.clock.clk = clkA}, 1),
            rd \in SeqsUpTo(PortClocks, MaxRdPorts)}
    \cup {MemCell(2, 1, 2, <<p>>, [r \in 1 .. n |-> p.clock]) :
            p \in WrProfiles, n \in 1 .. MaxRdPorts}

Init ==
    \E bram \in BramTypes(1, 2), c \in PortCells : Start(OneRule(bram), c)

Next ==
    \/ MatchRule
    \/ Exhausted
    \/ MapWritePort
    \/ BeginReadPhase
    \/ MapReadPort
    \/ GrowReadPorts
    \/ BeginGrid
    \/ EmitCell
    \/ ResolveDout
    \/ RemoveCell

Spec == Init /\ [][Next]_vars

\* rule selection: up to MaxRules match rules over the brams R2 and FIX and
\* a bram that is not described, each without limits, with a min or a max
\* limit, or with a limit on an unknown property
RuleBrams ==
    [n \in {"R2", "FIX"} |-> CHOOSE b \in BramTypes(1, 2) : b.name = n]

RuleLimits ==
    { [min_limits |-> <<>>, max_limits |-> <<>>],
      [min_limits |-> << <<"words", 3>> >>, max_limits |-> <<>>],
      [min_limits |-> <<>>, max_limits |-> << <<"waste", 0>> >>],
      [min_limits |-> << <<"bogus", 1>> >>, max_limits |-> <<>>] }

MatchRules ==
    { [name |-> n, min_limits |-> l.min_limits, max_limits |-> l.max_limits] :
        n \in {"R2", "FIX", "NONE"}, l \in RuleLimits }

\* memories of 2 or 3 words with a write port and read ports on its clock
\* edge (falling, or rising with two read ports), or an asynchronous read port
RuleCells ==
    LET pos == [clken |-> TRUE, clkpol |-> TRUE, clk |-> clkA]
        neg == [clken |-> TRUE, clkpol |-> FALSE, clk |-> clkA]
        asy == [clken |-> FALSE, clkpol |-> FALSE, clk |-> Sx]
    IN  { MemCell(sz[1], sz[2], 2, <<[clock |-> pr[1], en |-> "uniform"]>>, pr[2]) :
            sz \in {<<2, 1>>, <<3, 2>>},
            pr \in {<<pos, <<pos, pos>> >>, <<pos, <<asy>> >>, <<neg, <<neg>> >>} }

InitRules ==
    \E ms \in SeqsUpTo(MatchRules, MaxRules), c \in RuleCells :
        Start([brams |-> RuleBrams, matches |-> ms], c)

SpecRules == InitRules /\ [][Next]_vars

\* the grid: memories of up to MaxSize words of up to MaxWidth bits, with
\* the address bits their size needs or one less (a size that ABITS address
\* bits do not reach), at most one write port and up to two
\* read ports on the rising edge of one clock, against brams of 1, 2 or 4
\* words of 1 or 2 bits (FIX takes the falling edge only)
AddrBits(size) ==
    Min({a \in 0 .. size : Shl1(a) >= size})

GridCells ==
    LET pos == [clken |-> TRUE, clkpol |-> TRUE, clk |-> clkA]
    IN  { MemCell(sa[1], sa[2], width,
                  [w \in 1 .. nw |-> [clock |-> pos, en |-> "uniform"]],
                  [r \in 1 .. nr |-> pos]) :
            sa \in {<<size, abits>> \in (0 .. MaxSize) \X (0 .. MaxSize) :
                        abits \in {AddrBits(size), Max0({AddrBits(size) - 1})}},
            width \in 0 .. MaxWidth, nw \in 0 .. 1, nr \in 0 .. 2 }

GridBrams ==
    UNION { {b \in BramTypes(abits, dbits) : b.name \in {"R2", "RW", "FIX"}} :
              abits \in 0 .. 2, dbits \in 1 .. 2 }

InitGrid ==
    \E bram \in GridBrams, c \in GridCells : Start(OneRule(bram), c)

SpecGrid == InitGrid /\ [][Next]_vars

\* the limits: a first rule with no, one or two limits, some on a property
\* that does not exist, followed or not by a rule without limits, for a bram
\* of 2 words of 2 bits or of 4 words of 4 bits; the memories of the rule
\* selection and one of 5 words of 3 bits
LimitSets ==
    { [min_limits |-> <<>>, max_limits |-> <<>>],
      [min_limits |-> <<>>, max_limits |-> << <<"waste", 0>> >>],
      [min_limits |-> << <<"words", 3>> >>, max_limits |-> <<>>],
      [min_limits |-> << <<"bogus", 1>> >>, max_limits |-> <<>>],
      [min_limits |-> <<>>, max_limits |-> << <<"bogus", 1>> >>],
      [min_limits |-> << <<"words", 3>>, <<"bogus", 1>> >>, max_limits |-> <<>>],
      [min_limits |-> << <<"bogus", 1>>, <<"words", 3>> >>, max_limits |-> <<>>],
      [min_limits |-> << <<"words", 3>> >>, max_limits |-> << <<"bogus", 1>> >>],
      [min_limits |-> <<>>, max_limits |-> << <<"waste", 0>>, <<"bogus", 1>> >>] }

LimitBrams ==
    {b \in BramTypes(1, 2) \cup BramTypes(2, 4) : b.name = "R2"}

LimitCells ==
    LET pos == [clken |-> TRUE, clkpol |-> TRUE, clk |-> clkA]
    IN  RuleCells \cup {MemCell(5, 3, 3, <<[clock |-> pos, en |-> "uniform"]>>, <<pos>>)}

InitLimits ==
    \E bram \in LimitBrams, l \in LimitSets, more \in BOOLEAN, c \in LimitCells :
        Start([brams |-> (bram.name :> bram),
               matches |-> <<[name |-> bram.name, min_limits |-> l.min_limits,
                              max_limits |-> l.max_limits]>>
                           \o (IF more THEN <<NoLimits(bram.name)>> ELSE <<>>)],
              c)

SpecLimits == InitLimits /\ [][Next]_vars

\* the retry after a duplication step: memories with at most one write port
\* and up to MaxRdPorts + 1 read ports, each asynchronous or on an edge of
\* clkA, against R2, SDP and a bram M3 of one write port and three read
\* groups of one port: the first on the falling edge of a clock of its own,
\* the second on that clock with the configurable polarity of the write
\* port, the third on the rising edge of the clock of the write port
RetryBrams ==
    {b \in BramTypes(1, 2) : b.name \in {"R2", "SDP"}}
    \cup {Bram("M3", 1, 2, <<1, 1, 1, 1>>, <<1, 0, 0, 0>>, <<1, 0, 0, 0>>,
               <<1, 2, 2, 1>>, <<2, 0, 2, 1>>)}

RetryCells ==
    LET pos == [clken |-> TRUE, clkpol |-> TRUE, clk |-> clkA]
        neg == [clken |-> TRUE, clkpol |-> FALSE, clk |-> clkA]
        asy == [clken |-> FALSE, clkpol |-> FALSE, clk |-> Sx]
    IN  {MemCell(2, 1, 2, wr, rd) :
            wr \in SeqsUpTo({[clock |-> pos, en |-> "uniform"]}, 1),
            rd \in SeqsUpTo({pos, neg, asy}, MaxRdPorts + 1)}

InitRetry ==
    \E bram \in RetryBrams, c \in RetryCells : Start(OneRule(bram), c)

SpecRetry == InitRetry /\ [][Next]_vars

(* ------------------------------------------------------------------ *)
(* Accesses to the memory and to the grid that replaced it.  A bit is 0  *)
(* or 1, or -1 when it is undefined.  The $mem cell, each bram cell (a   *)
(* memory of 1 << abits words of dbits bits, written lane by lane under  *)
(* its EN bits, or as a whole when it has no EN port) and the Eq, Mux,   *)
(* Dff and Pmux gates behave as the pass description says.  One access   *)
(* is one write by the write port or one read by a read port.            *)
(* ------------------------------------------------------------------ *)
BitOf(n, i) == (n \div (2 ^ i)) % 2

\* the value of signal bit b during the access env
SigVal(b, env) ==
    CASE b[1] = "S0" -> 0
      [] b[1] = "S1" -> 1
      [] b[1] = "wr_addr" /\ env.write -> BitOf(env.addr, b[2] - env.port * cell.ABITS)
      [] b[1] = "rd_addr" /\ ~env.write -> BitOf(env.addr, b[2] - env.port * cell.ABITS)
      [] b[1] = "wr_data" /\ env.write -> env.data[b[2] - env.port * cell.WIDTH + 1]
      [] b[1] = "wr_we"   /\ env.write -> env.free[1]
      [] b[1] = "wr_en"   /\ env.write -> env.free[b[2] - env.port * cell.WIDTH + 1]
      [] OTHER -> -1

\* the number on the bits sig[k..]
RECURSIVE SigNum(_, _, _)
SigNum(sig, env, k) ==
    IF k > Len(sig) THEN 0
    ELSE SigVal(sig[k], env) + 2 * SigNum(sig, env, k + 1)

\* the output of Eq(extra_addr, grid_a), registered or not
SelVal(ok, env) == SigNum(ok.extra_addr, env, 1) = ok.sel

\* a bram word after a write by port p of a cell of type bram
TileWord(old, p, bram, env) ==
    LET lw == IF p.has_en THEN bram.dbits \div Len(p.EN) ELSE 1
        en(i) == IF ~p.has_en THEN TRUE
                 ELSE /\ (i \div lw) < Len(p.EN)
                      /\ SigVal(p.EN[(i \div lw) + 1], env) = 1
                      /\ (p.en_gate # <<>> => SelVal(p.en_gate[1], env))
    IN  [i \in 1 .. bram.dbits |->
            IF en(i - 1) THEN SigVal(p.DATA[i], env) ELSE old[i]]

\* the content of a bram cell after the write ports ports[k..] have written
RECURSIVE TileWrite(_, _, _, _, _)
TileWrite(tile, ports, k, bram, env) ==
    IF k > Len(ports) THEN tile
    ELSE IF ports[k].wrmode # 1 THEN TileWrite(tile, ports, k + 1, bram, env)
    ELSE LET a == SigNum(ports[k].ADDR, env, 1)
         IN  TileWrite([tile EXCEPT ![a] = TileWord(@, ports[k], bram, env)],
                       ports, k + 1, bram, env)

\* the value of the bram output bit b: the bit of the word addressed by the
\* read port that drives it
DoutVal(b, env) ==
    LET at == {<<c, k, i>> \in (DOMAIN module.cells) \X (1 .. Len(portinfos))
                                \X (1 .. CurBram.dbits) :
                  /\ k <= Len(module.cells[c].ports)
                  /\ module.cells[c].ports[k].wrmode = 0
                  /\ i <= Len(module.cells[c].ports[k].DATA)
                  /\ module.cells[c].ports[k].DATA[i] = b}
    IN  IF at = {} THEN -1
        ELSE LET x == CHOOSE x \in at : TRUE
                 p == module.cells[x[1]].ports[x[2]]
             IN  tiles[x[1]][SigNum(p.ADDR, env, 1)][x[3]]

\* the value the grid drives on bit y of the read data: a connection, or a
\* Pmux that yields x unless exactly one selector is set
GridBit(y, env) ==
    LET ds == {d \in module.drivers : \E pos \in DOMAIN d.Y : d.Y[pos] = y}
    IN  IF ds = {} THEN -1
        ELSE LET d   == CHOOSE d \in ds : TRUE
                 pos == CHOOSE pos \in DOMAIN d.Y : d.Y[pos] = y
                 sel == {i \in DOMAIN d.S : SelVal(d.S[i], env)}
             IN  IF d.type = "connect" THEN DoutVal(d.B[pos], env)
                 ELSE IF Cardinality(sel) # 1 THEN -1
                 ELSE DoutVal(d.B[((CHOOSE i \in sel : TRUE) - 1) * Len(d.Y) + pos], env)

\* the cell was replaced: the memory and the bram cells hold no defined bit
SimStart ==
    /\ pc = "done"
    /\ ~module.mem_present
    /\ pc' = "sim"
    /\ mem' = [a \in 0 .. cell.SIZE - 1 |-> [j \in 1 .. cell.WIDTH |-> -1]]
    /\ tiles' = [c \in DOMAIN module.cells |->
                    [a \in 0 .. Shl1(CurBram.abits) - 1 |->
                        [i \in 1 .. CurBram.dbits |-> -1]]]
    /\ rd_out' = <<>>
    /\ naccess' = 0
    /\ UNCHANGED <<rules, cell, handle_vars, trace, assign_vars, stitch_vars>>

\* the write port writes data at address a under the enables its free
\* enable wires take
SimWrite ==
    /\ pc = "sim"
    /\ naccess < MaxAccess
    /\ cell.WR_PORTS = 1
    /\ \E a \in 0 .. cell.SIZE - 1,
          data \in [1 .. cell.WIDTH -> {0, 1}],
          free \in [1 .. cell.WIDTH -> {0, 1}] :
          LET env == [write |-> TRUE, port |-> 0, addr |-> a, data |-> data, free |-> free]
          IN  /\ mem' = [mem EXCEPT ![a] =
                            [j \in 1 .. cell.WIDTH |->
                                IF SigVal(cell.WR_EN[j], env) = 1 THEN data[j] ELSE @[j]]]
              /\ tiles' = [c \in DOMAIN module.cells |->
                              TileWrite(tiles[c], module.cells[c].ports, 1, CurBram, env)]
    /\ naccess' = naccess + 1
    /\ UNCHANGED <<rules, cell, handle_vars, trace, assign_vars, stitch_vars, pc, rd_out>>

\* read port r reads address a of the memory and of the grid
SimRead ==
    /\ pc = "sim"
    /\ naccess < MaxAccess
    /\ \E r \in 0 .. cell.RD_PORTS - 1, a \in 0 .. cell.SIZE - 1 :
          LET env == [write |-> FALSE, port |-> r, addr |-> a, data |-> <<>>, free |-> <<>>]
          IN  rd_out' = [port |-> r, addr |-> a, orig |-> mem[a],
                         grid |-> [j \in 1 .. cell.WIDTH |->
                                      GridBit(cell.RD_DATA[r * cell.WIDTH + j], env)]]
    /\ naccess' = naccess + 1
    /\ UNCHANGED <<rules, cell, handle_vars, trace, assign_vars, stitch_vars, pc, mem, tiles>>

\* replaced memories under access: one write port with each enable
\* pattern, one or two read ports, 2 or 3 words of 1 or 2 bits, against
\* brams of 2 words with one write port
SimCells ==
    LET pos == [clken |-> TRUE, clkpol |-> TRUE, clk |-> clkA]
        asy == [clken |-> FALSE, clkpol |-> FALSE, clk |-> Sx]
    IN  { MemCell(size, AddrBits(size), width, <<[clock |-> pos, en |-> e]>>, rd) :
            size \in 2 .. 3, width \in 1 .. 2, e \in EnPatterns,
            rd \in {<<asy>>, <<pos>>, <<pos, pos>>} }

SimBrams ==
    UNION { {b \in BramTypes(1, dbits) : b.name \in {"RF", "R2", "SDP"}} : dbits \in 1 .. 2 }

InitSim ==
    \E bram \in SimBrams, c \in SimCells : Start(OneRule(bram), c)

NextSim ==
    \/ Next
    \/ SimStart
    \/ SimWrite
    \/ SimRead

SpecSim == InitSim /\ [][NextSim]_vars

(* ------------------------------------------------------------------ *)
(* Properties                                                           *)
(* ------------------------------------------------------------------ *)
WrPorts == 0 .. cell.WR_PORTS - 1
RdPorts == 0 .. cell.RD_PORTS - 1
Replicas == 0 .. dup_count - 1

\* replace_cell has bound every port and is in, or past, the stitcher
Stitching ==
    \/ pc \in {"grid", "dout", "remove", "abort", "sim"}
    \/ pc = "done" /\ ~module.mem_present

\* the positions of the PortInfos of direction wrmode bound to port p
BoundTo(wrmode, p) ==
    {k \in DOMAIN portinfos : portinfos[k].wrmode = wrmode /\ portinfos[k].mapped_port = p}

\* the number of duplication steps made by the running assignment
LastCall ==
    Max0({k \in DOMAIN trace : trace[k][1] = "call"})

GrowSteps ==
    {k \in DOMAIN trace : k > LastCall /\ trace[k][1] = "grow"}

\* C2 as stated: in a successful mapping every logical write port and
\* every logical read port is bound to exactly one PortInfo of the vector,
\* replicas included.
C2_ExactlyOnePortInfo ==
    Stitching =>
        /\ \A w \in WrPorts : Cardinality(BoundTo(1, w)) = 1
        /\ \A r \in RdPorts : Cardinality(BoundTo(0, r)) = 1

\* C2 amended: in a successful mapping every logical read port is bound to
\* exactly one PortInfo, every logical write port to exactly one PortInfo
\* of each replica (the same group and index in each), and a PortInfo binds
\* either nothing or one port of its own direction.
C2_OnePortInfoPerReplica ==
    Stitching =>
        /\ \A w \in WrPorts : \A d \in Replicas :
              Cardinality({k \in BoundTo(1, w) : portinfos[k].dupidx = d}) = 1
        /\ \A w \in WrPorts : \A k1, k2 \in BoundTo(1, w) :
              /\ portinfos[k1].group = portinfos[k2].group
              /\ portinfos[k1].index = portinfos[k2].index
        /\ \A r \in RdPorts : Cardinality(BoundTo(0, r)) = 1
        /\ \A k \in DOMAIN portinfos :
              /\ portinfos[k].dupidx \in Replicas
              /\ portinfos[k].mapped_port \in
                    (IF portinfos[k].wrmode = 1 THEN WrPorts
                     ELSE IF portinfos[k].wrmode = 0 THEN RdPorts ELSE {}) \cup {-1}

\* a mapping with a write port and two read ports that needed a replica
C2_Witness ==
    /\ Stitching
    /\ dup_count >= 2
    /\ cell.WR_PORTS >= 1
    /\ cell.RD_PORTS >= 2

\* C3 as stated: at the end of a successful assignment every PortInfo of
\* the vector with clocks = k > 0 has clock_domains[k] defined and equal to
\* (sig_clock, effective_clkpol).
C3_EveryPortInfoInItsDomain ==
    Stitching =>
        \A k \in DOMAIN portinfos :
            portinfos[k].clocks > 0 =>
                /\ portinfos[k].clocks \in DOMAIN clock_domains
                /\ clock_domains[portinfos[k].clocks]
                      = <<portinfos[k].sig_clock, portinfos[k].effective_clkpol>>

\* C3 amended: at the end of a successful assignment every bound PortInfo
\* (mapped_port >= 0) with clocks = k > 0 has clock_domains[k] defined and
\* equal to (sig_clock, effective_clkpol).
C3_BoundPortInfoInItsDomain ==
    Stitching =>
        \A k \in DOMAIN portinfos :
            (portinfos[k].mapped_port >= 0 /\ portinfos[k].clocks > 0) =>
                /\ portinfos[k].clocks \in DOMAIN clock_domains
                /\ clock_domains[portinfos[k].clocks]
                      = <<portinfos[k].sig_clock, portinfos[k].effective_clkpol>>

\* a mapping whose second replica holds a bound clocked read PortInfo and a
\* bound clocked write PortInfo
C3_Witness ==
    /\ Stitching
    /\ \E k1, k2 \in DOMAIN portinfos :
          /\ portinfos[k1].dupidx >= 1 /\ portinfos[k2].dupidx >= 1
          /\ portinfos[k1].wrmode = 0 /\ portinfos[k2].wrmode = 1
          /\ portinfos[k1].mapped_port >= 0 /\ portinfos[k2].mapped_port >= 0
          /\ portinfos[k1].clocks > 0 /\ portinfos[k2].clocks > 0

\* the rules hold one rule without limits, for a bram of one write port and
\* one read port sharing one clock cohort; the memory has one synchronous
\* write port and n >= 1 synchronous read ports on its clock and polarity
C4_Setup ==
    /\ Len(rules.matches) = 1
    /\ rules.matches[1].name \in DOMAIN rules.brams
    /\ rules.matches[1].min_limits = <<>>
    /\ rules.matches[1].max_limits = <<>>
    /\ LET b == rules.brams[rules.matches[1].name]
       IN  /\ b.groups = 2
           /\ b.ports = <<1, 1>>
           /\ {VecAt(b.wrmode, 0), VecAt(b.wrmode, 1)} = {0, 1}
           /\ VecAt(b.clocks, 0) = VecAt(b.clocks, 1)
           /\ VecAt(b.clocks, 0) > 0
    /\ cell.WR_PORTS = 1
    /\ cell.WR_CLK_ENABLE[1]
    /\ cell.RD_PORTS >= 1
    /\ \A r \in 1 .. cell.RD_PORTS :
          /\ cell.RD_CLK_ENABLE[r]
          /\ cell.RD_CLK[r] = cell.WR_CLK[1]
          /\ cell.RD_CLK_POLARITY[r] = cell.WR_CLK_POLARITY[1]

\* replace_cell returned false for the rule
Failed ==
    \E k \in DOMAIN trace : trace[k][1] = "failed"

\* one replica per read port, made by one duplication step each but the
\* first, the write port bound in each, read port r bound in replica r
C4_Outcome ==
    /\ dup_count = cell.RD_PORTS
    /\ Cardinality(GrowSteps) = cell.RD_PORTS - 1
    /\ \A d \in Replicas : \E k \in BoundTo(1, 0) : portinfos[k].dupidx = d
    /\ \A r \in RdPorts :
          /\ BoundTo(0, r) # {}
          /\ \A k \in BoundTo(0, r) : portinfos[k].dupidx = r

\* C4 as stated: in that setup the assignment succeeds with dup_count = n,
\* n - 1 duplication steps, the write port bound in every replica and read
\* port r bound to the read PortInfo of replica r.
C4_SucceedsWithNReplicas ==
    C4_Setup => /\ ~Failed
                /\ pc # "fatal"
                /\ Stitching => C4_Outcome

\* both groups of the bram take the memory's clock edge (a configurable
\* clkpol, or the fixed one of that edge) and the write group takes the
\* port's enables (equal within each lane; all constant 1 without enables)
C4_Compatible ==
    LET b   == rules.brams[rules.matches[1].name]
        wg  == IF VecAt(b.wrmode, 0) = 1 THEN 0 ELSE 1
        e   == VecAt(b.enable, wg)
        pol == cell.WR_CLK_POLARITY[1]
    IN  /\ \A g \in {0, 1} :
              \/ VecAt(b.clkpol, g) > 1
              \/ VecAt(b.clkpol, g) = (IF pol THEN 1 ELSE 0)
        /\ IF e = 0
           THEN \A i \in 1 .. cell.WIDTH : cell.WR_EN[i] = S1
           ELSE \A i, j \in 0 .. cell.WIDTH - 1 :
                   (i \div (b.dbits \div e) = j \div (b.dbits \div e))
                       => cell.WR_EN[i + 1] = cell.WR_EN[j + 1]

\* C4 amended: in that setup, when both groups of the bram take the
\* memory's clock edge and the write group takes the port's enables, the
\* assignment succeeds with dup_count = n, n - 1 duplication steps, the
\* write port bound in every replica and read port r bound to the read
\* PortInfo of replica r.
C4_CompatibleSucceedsWithNReplicas ==
    (C4_Setup /\ C4_Compatible) => /\ ~Failed
                                   /\ pc # "fatal"
                                   /\ Stitching => C4_Outcome

\* three read ports were mapped by two duplication steps
C4_Witness ==
    /\ C4_Setup
    /\ C4_Compatible
    /\ Stitching
    /\ cell.RD_PORTS = 3
    /\ dup_count = 3

\* two enable bits of write port w differ within one of the lanes of
\* dbits / enable bits
LaneMismatch(w, enable, dbits) ==
    \E i, j \in 0 .. cell.WIDTH - 1 :
        /\ i \div (dbits \div enable) = j \div (dbits \div enable)
        /\ cell.WR_EN[w * cell.WIDTH + i + 1] # cell.WR_EN[w * cell.WIDTH + j + 1]

\* PortInfo k was examined for write port w and passed the clock checks:
\* it lies in the first replica after the PortInfo bound to the port
\* before w and before the one bound to w
Examined(w, k) ==
    LET pi   == portinfos[k]
        at(p) == {j \in BoundTo(1, p) : portinfos[j].dupidx = 0}
        clken  == cell.WR_CLK_ENABLE[w + 1]
        clkpol == cell.WR_CLK_POLARITY[w + 1]
    IN  /\ pi.wrmode = 1
        /\ pi.dupidx = 0
        /\ \A j \in at(w) : k < j
        /\ w > 0 => \A j \in at(w - 1) : j < k
        /\ ClockCompatible(pi, clken, clkpol, Clkdom(clken, clkpol, cell.WR_CLK[w + 1]))

\* C5 as stated: when the enable bits of a write port differ within a lane
\* of a write PortInfo examined for it, replace_cell returns false; so no
\* mapping that reached the stitcher has such a port and PortInfo.
C5_MismatchRejectsBram ==
    Stitching =>
        \A w \in WrPorts : \A k \in DOMAIN portinfos :
            (Examined(w, k) /\ portinfos[k].enable > 0)
                => ~LaneMismatch(w, portinfos[k].enable, CurBram.dbits)

\* C5 amended: when the enable bits of a write port differ within a lane of
\* a write PortInfo, that PortInfo is not bound to the port (a bound one
\* carries the first enable bit of each lane as sig_en); replace_cell
\* returns false only when no write PortInfo the cursor reaches accepts
\* the port, so a mapping that reached the stitcher has, for every write
\* port, a write PortInfo without such a mismatch.
C5_MismatchSkipsPortInfo ==
    /\ \A k \in DOMAIN portinfos :
          (portinfos[k].wrmode = 1 /\ portinfos[k].mapped_port >= 0
              /\ portinfos[k].enable > 0)
          => LET w  == portinfos[k].mapped_port
                 lw == CurBram.dbits \div portinfos[k].enable
             IN  /\ ~LaneMismatch(w, portinfos[k].enable, CurBram.dbits)
                 /\ portinfos[k].sig_en =
                       [l \in 1 .. ((cell.WIDTH + lw - 1) \div lw) |->
                           cell.WR_EN[w * cell.WIDTH + (l - 1) * lw + 1]]
    /\ Stitching =>
          \A w \in WrPorts : \E k \in DOMAIN portinfos :
              /\ portinfos[k].wrmode = 1
              /\ portinfos[k].enable > 0
                    => ~LaneMismatch(w, portinfos[k].enable, CurBram.dbits)

\* a mapping that reached the stitcher although the enables of a write
\* port differ within a lane of a write PortInfo examined for it
C5_Witness ==
    /\ Stitching
    /\ \E w \in WrPorts : \E k \in DOMAIN portinfos :
          /\ Examined(w, k)
          /\ portinfos[k].enable > 0
          /\ LaneMismatch(w, portinfos[k].enable, CurBram.dbits)

\* the port assignment of the running replace_cell is over
Assigned ==
    pc \in {"grid", "dout", "remove", "abort", "sim", "rule", "done", "fatal"}

\* the failing read port and the growth cursor of the g-th duplication step
GrowPort(g) == trace[g][2]
GrowCursor(g) == trace[g][3]

\* each read port triggers at most one duplication step, the cursor has
\* advanced between two steps, and there are at most max(0, rd_ports - 1)
\* steps and max(1, rd_ports) replicas
C6_BoundedGrowth ==
    /\ \A g, h \in GrowSteps :
          g < h => /\ GrowPort(g) < GrowPort(h)
                   /\ GrowCursor(g) < GrowCursor(h)
    /\ \A g \in GrowSteps : GrowPort(g) \in 1 .. cell.RD_PORTS - 1
    /\ Cardinality(GrowSteps) <= Max0({0, cell.RD_PORTS - 1})
    /\ dup_count <= Max0({1, cell.RD_PORTS})
    /\ pc = "grow" =>
          /\ try_growing_more_read_ports
          /\ \A g \in GrowSteps : GrowCursor(g) < grow_read_ports_cursor

\* the port assignment of replace_cell is running
Assigning ==
    pc \in {"wr_port", "rd_port", "grow"}

\* a bound on the steps the running assignment can still take: the write
\* ports left, then for each replica that can still be added a full pass
\* over the read ports and a duplication step, then the read ports left
Rank ==
    LET R == cell.RD_PORTS
        rounds == (Max0({1, R}) - dup_count) * (2 * R + 2)
    IN  CASE pc = "wr_port" -> rounds + 2 * R + 2 + (cell.WR_PORTS - cell_port_i)
          [] pc = "rd_port" -> rounds + 2 * (R - cell_port_i) + 1
          [] pc = "grow"    -> rounds + 2 * (R - cell_port_i)
          [] OTHER          -> 0

\* C6: the port assignment always ends, in success or in failure (while it
\* runs a step can be taken, and every step lowers a non-negative bound on
\* the steps left); each read-port index triggers a duplication step at
\* most once, a step happens only if the growth cursor advanced since the
\* previous step, and at most max(0, rd_ports - 1) steps occur
\* (dup_count <= max(1, rd_ports)).
C6_AssignmentEnds ==
    /\ [](C6_BoundedGrowth /\ Rank >= 0 /\ (Assigning => ENABLED Next))
    /\ [][Assigning => Rank' < Rank]_vars

\* an assignment over after two duplication steps
C6_Witness ==
    /\ Assigned
    /\ Cardinality(GrowSteps) = 2
    /\ dup_count = 3

\* the positions of the trace at which rule i is visited, called, failed
Visit(p)  == trace[p][1] = "visit"
Call(p)   == trace[p][1] = "call"
Fail(p)   == trace[p][1] = "failed"
RuleAt(p) == rules.matches[trace[p][2] + 1]

\* the value of a property of the cell for a bram, and whether the limits
\* of a match rule hold of these values
PropertyOf(key, bram) ==
    LET A  == Shl1(bram.abits)
        aw == (A - (cell.SIZE % A)) % A
        dw == (bram.dbits - (cell.WIDTH % bram.dbits)) % bram.dbits
    IN  CASE key = "words"  -> cell.SIZE
          [] key = "abits"  -> cell.ABITS
          [] key = "dbits"  -> cell.WIDTH
          [] key = "wports" -> cell.WR_PORTS
          [] key = "rports" -> cell.RD_PORTS
          [] key = "bits"   -> cell.SIZE * cell.WIDTH
          [] key = "ports"  -> cell.WR_PORTS + cell.RD_PORTS
          [] key = "awaste" -> aw
          [] key = "dwaste" -> dw
          [] key = "waste"  -> aw * bram.dbits + dw * A - aw * dw

KnownProperties ==
    {"words", "abits", "dbits", "wports", "rports", "bits", "ports",
     "awaste", "dwaste", "waste"}

LimitsSatisfied(match, bram) ==
    /\ \A k \in DOMAIN match.min_limits :
          /\ match.min_limits[k][1] \in KnownProperties
          /\ PropertyOf(match.min_limits[k][1], bram) >= match.min_limits[k][2]
    /\ \A k \in DOMAIN match.max_limits :
          /\ match.max_limits[k][1] \in KnownProperties
          /\ PropertyOf(match.max_limits[k][1], bram) <= match.max_limits[k][2]

\* the brams whose assignment failed before position p of the trace
FailedBefore(p) ==
    {RuleAt(q).name : q \in {x \in 1 .. p - 1 : Fail(x)}}

\* C7: for one memory cell the match rules are visited in declaration
\* order; the assigner is invoked for a visited rule exactly when its bram
\* has not already failed for this cell and all its min/max limits are
\* satisfied (a rule of an undescribed bram ends the pass); a bram whose
\* assignment failed is never attempted again; no rule is visited after the
\* first successful replacement, so the cell is replaced at most once.
C7_RuleSelection ==
    /\ \A p \in DOMAIN trace :
          Visit(p) =>
              /\ trace[p][2] = Cardinality({q \in 1 .. p - 1 : Visit(q)})
              /\ LET called == p < Len(trace) /\ Call(p + 1) /\ trace[p + 1][2] = trace[p][2]
                 IN  IF RuleAt(p).name \notin DOMAIN rules.brams
                     THEN ~called /\ p = Len(trace) /\ pc = "fatal"
                     ELSE called <=>
                            /\ RuleAt(p).name \notin FailedBefore(p)
                            /\ LimitsSatisfied(RuleAt(p), rules.brams[RuleAt(p).name])
    /\ \A p, q \in DOMAIN trace :
          (Fail(p) /\ Call(q) /\ p < q) => RuleAt(p).name # RuleAt(q).name
    /\ \A p, q \in DOMAIN trace :
          (Call(p) /\ Visit(q) /\ p < q) =>
              \E f \in p + 1 .. q - 1 : Fail(f) /\ trace[f][2] = trace[p][2]
    /\ \A p \in DOMAIN trace : trace[p][1] = "replaced" => p = Len(trace)
    /\ ~module.mem_present =>
          /\ Len(trace) > 0
          /\ trace[Len(trace)][1] = "replaced"
          /\ failed_brams = FailedBefore(Len(trace))

\* a replacement by the second rule after the first rule's bram failed
C7_Witness ==
    /\ ~module.mem_present
    /\ Failed
    /\ \E p \in DOMAIN trace : Visit(p) /\ trace[p][2] = 1
    /\ rule_i = 1

\* replace_cell has not reached the stitcher, or has returned false
Untouched ==
    \/ pc \in {"rule", "wr_port", "rd_port", "grow", "fatal"}
    \/ pc = "done" /\ module.mem_present

\* C8: whenever replace_cell returns false the module is unchanged (nothing
\* was added and the $mem cell is present); on success the removal of the
\* cell is the last mutation; when every rule is exhausted without success
\* the cell and the module are as before handle_cell.
C8_NoPartialMutation ==
    /\ [](Untouched => module = NoModule)
    /\ [](~module.mem_present => pc = "done")
    /\ [][(pc' = "rule" \/ module.mem_present = FALSE) => module' = module]_vars
    /\ [][cell' = cell]_vars

\* every rule is exhausted after a bram failed
C8_Witness ==
    /\ pc = "done"
    /\ module.mem_present
    /\ Failed
    /\ trace[Len(trace)][1] = "none"

\* the bram of the single rule
TheBram == rules.brams[rules.matches[1].name]

\* the grid loops are over
GridDone ==
    \/ pc \in {"dout", "remove", "abort"}
    \/ pc = "done" /\ ~module.mem_present

\* C9: for every successful mapping with width >= 1, size >= 1 and
\* B.dbits >= 1 the number of bram cells added is
\* ceil(width / B.dbits) * ceil(size / (1 << B.abits)) * dup_count, one per
\* distinct triple (grid_d, grid_a, dupidx).
C9_CellCount ==
    (GridDone /\ cell.WIDTH >= 1 /\ cell.SIZE >= 1 /\ TheBram.dbits >= 1) =>
        LET D == TheBram.dbits
            A == Shl1(TheBram.abits)
            nd == (cell.WIDTH + D - 1) \div D
            na == (cell.SIZE + A - 1) \div A
        IN  /\ Len(module.cells) = nd * na * dup_count
            /\ {<<module.cells[k].grid_d, module.cells[k].grid_a, module.cells[k].dupidx>> :
                    k \in DOMAIN module.cells}
                  = (0 .. nd - 1) \X (0 .. na - 1) \X (0 .. dup_count - 1)

\* a grid of several data slices, address tiles and replicas
C9_Witness ==
    /\ GridDone
    /\ dup_count = 2
    /\ cell.WIDTH > TheBram.dbits
    /\ cell.SIZE > Shl1(TheBram.abits)
    /\ cell.SIZE % Shl1(TheBram.abits) # 0
    /\ Len(module.cells) >= 8

\* a rule is about to be evaluated: its bram is described and has not failed
Evaluating ==
    /\ pc = "rule"
    /\ rule_i < Len(rules.matches)
    /\ CurMatch.name \in DOMAIN rules.brams
    /\ CurMatch.name \notin failed_brams

\* C10: the computed awaste is ((1<<B.abits) - (words mod (1<<B.abits))) mod
\* (1<<B.abits), dwaste is (B.dbits - (width mod B.dbits)) mod B.dbits, waste
\* is awaste*B.dbits + dwaste*(1<<B.abits) - awaste*dwaste and is not
\* negative; awaste = 0 when words is a multiple of 1<<B.abits, dwaste = 0
\* when width is a multiple of B.dbits.
C10_WasteMetric ==
    [][Evaluating =>
        LET A  == Shl1(CurBram.abits)
            D  == CurBram.dbits
            words == match_properties["words"]
            width == match_properties["dbits"]
            aw == match_properties'["awaste"]
            dw == match_properties'["dwaste"]
            ws == match_properties'["waste"]
        IN  /\ words = cell.SIZE /\ width = cell.WIDTH
            /\ aw = (A - (words % A)) % A
            /\ dw = (D - (width % D)) % D
            /\ ws = aw * D + dw * A - aw * dw
            /\ ws >= 0
            /\ (words % A = 0) => aw = 0
            /\ (width % D = 0) => dw = 0]_vars

\* a rule was evaluated with words and width no multiples, and one with both
C10_Witness ==
    /\ "waste" \in DOMAIN match_properties
    /\ Len(trace) > 0
    /\ match_properties["awaste"] > 0
    /\ match_properties["dwaste"] > 0
    /\ match_properties["waste"] > match_properties["awaste"] + match_properties["dwaste"]

\* C1: for a successfully mapped memory, after any sequence of write and
\* read accesses at addresses below size, the data the grid delivers on a
\* read port equals the data the memory delivers for the same accesses
\* (every bit the memory defines).
C1_GridRefinesMemory ==
    (pc = "sim" /\ rd_out # <<>>) =>
        \A j \in 1 .. cell.WIDTH :
            rd_out.orig[j] # -1 => rd_out.grid[j] = rd_out.orig[j]

\* the bits of the bram cells of one replica of the grid
AllocatedBits ==
    Cardinality({k \in DOMAIN module.cells : module.cells[k].dupidx = 0})
        * Shl1(TheBram.abits) * TheBram.dbits

\* C11 as stated: the waste computed for a match is the number of bram bits
\* allocated by the grid that no logical address and bit reaches,
\* ceil(words/(1<<B.abits))*(1<<B.abits) * ceil(width/B.dbits)*B.dbits
\* - words*width, also for a memory that needs more than one tile.
C11_WasteIsUnreachedBits ==
    (GridDone /\ cell.SIZE >= 1 /\ cell.WIDTH >= 1) =>
        LET A  == Shl1(TheBram.abits)
            D  == TheBram.dbits
            na == (cell.SIZE + A - 1) \div A
            nd == (cell.WIDTH + D - 1) \div D
        IN  /\ AllocatedBits = na * A * nd * D
            /\ match_properties["waste"] = AllocatedBits - cell.SIZE * cell.WIDTH

\* the first rule was evaluated for the memory of 5 words of 3 bits against
\* the bram of 4 words of 4 bits
C12_Example ==
    /\ cell.SIZE = 5
    /\ cell.WIDTH = 3
    /\ TheBram.abits = 2
    /\ TheBram.dbits = 4
    /\ "waste" \in DOMAIN match_properties

\* the first rule is "max waste 0"
C12_MaxWaste0 ==
    /\ rules.matches[1].min_limits = <<>>
    /\ rules.matches[1].max_limits = << <<"waste", 0>> >>

\* the first rule was rejected: the assigner was not called for it and the
\* pass went on
C12_Rejected ==
    /\ pc # "fatal"
    /\ ~\E p \in DOMAIN trace : Call(p) /\ trace[p][2] = 0

\* C12 as stated: for words = 5, width = 3 against abits = 2, dbits = 4
\* the computed properties are awaste = 3, dwaste = 1 and waste = 15, and
\* the rule "max waste 0" is rejected.
C12_Waste15 ==
    C12_Example =>
        /\ match_properties["awaste"] = 3
        /\ match_properties["dwaste"] = 1
        /\ match_properties["waste"] = 15
        /\ C12_MaxWaste0 => C12_Rejected

\* C12 amended: for words = 5, width = 3 against abits = 2, dbits = 4 the
\* computed properties are awaste = 3, dwaste = 1 and waste = 13
\* (3*4 + 1*4 - 3*1), and the rule "max waste 0" is rejected.
C12_Waste13 ==
    C12_Example =>
        /\ match_properties["awaste"] = 3
        /\ match_properties["dwaste"] = 1
        /\ match_properties["waste"] = 13
        /\ C12_MaxWaste0 => C12_Rejected

\* the rule "max waste 0" was visited for the example and the pass went on
C12_Witness ==
    /\ C12_Example
    /\ C12_MaxWaste0
    /\ rule_i >= 1
    /\ Visit(1) /\ trace[1][2] = 0
    /\ C12_Rejected

\* a limit of the rule names a property that does not exist
UnknownKey(match) ==
    \/ \E k \in DOMAIN match.min_limits : match.min_limits[k][1] \notin KnownProperties
    \/ \E k \in DOMAIN match.max_limits : match.max_limits[k][1] \notin KnownProperties

\* C13 as stated: whenever a match rule of a described bram that has not
\* failed for this cell is evaluated and a key of its min_limits or
\* max_limits is not a known property, the pass aborts with a fatal error
\* at that rule, whatever the other limits of the rule are.
C13_UnknownPropertyIsFatal ==
    \A p \in DOMAIN trace :
        (/\ Visit(p)
         /\ RuleAt(p).name \in DOMAIN rules.brams
         /\ RuleAt(p).name \notin FailedBefore(p)
         /\ UnknownKey(RuleAt(p)))
        => (p = Len(trace) /\ pc = "fatal")

\* the positions in the vector pis of the PortInfo (group g, index i) of
\* replica d
PiAt(pis, g, i, d) ==
    {k \in DOMAIN pis : pis[k].group = g /\ pis[k].index = i /\ pis[k].dupidx = d}

\* the PortInfo of pis that the PortInfo pi of another vector stands for
SamePi(pis, pi) == PiAt(pis, pi.group, pi.index, pi.dupidx)

\* a duplication step is about to be made for the failing read port
\* cell_port_i
Growing == pc = "grow"

\* C14 as stated: after a duplication step the assigner retries from the
\* failing read port onward: the read ports bound before the failing one
\* keep their PortInfo bindings, only the read PortInfos of the new replica
\* are unbound, and the next read port scanned is the one that failed.
C14_RetryFromFailingPort ==
    [][Growing =>
        /\ cell_port_i' = cell_port_i
        /\ \A k \in DOMAIN portinfos :
              (portinfos[k].wrmode = 0 /\ portinfos[k].mapped_port >= 0)
              => \E n \in SamePi(portinfos', portinfos[k]) :
                    portinfos'[n].mapped_port = portinfos[k].mapped_port]_vars

\* C14 amended: after a duplication step the assigner retries from read
\* port 0: every read-mode PortInfo of every replica, old and new, is
\* unbound (no port, clock, address, data), the write-mode PortInfos keep
\* their bindings and the new replica copies them, the cohort maps are
\* those of the snapshot taken after the write ports, and the next read
\* port scanned is port 0.
C14_RetryFromFirstPort ==
    [][Growing =>
        /\ cell_port_i' = 0
        /\ pc' = "rd_port"
        /\ dup_count' = dup_count + 1
        /\ clock_domains' = backup_clock_domains
        /\ clock_polarities' = backup_clock_polarities
        /\ UNCHANGED <<backup_clock_domains, backup_clock_polarities,
                       grow_read_ports_cursor>>
        /\ \A n \in DOMAIN portinfos' :
              portinfos'[n].wrmode = 0 =>
                  /\ portinfos'[n].mapped_port = -1
                  /\ portinfos'[n].sig_clock = S0
                  /\ portinfos'[n].sig_addr = <<>>
                  /\ portinfos'[n].sig_data = <<>>
        /\ \A k \in DOMAIN portinfos :
              portinfos[k].wrmode # 0 =>
                  /\ \E n \in SamePi(portinfos', portinfos[k]) :
                        portinfos'[n] = portinfos[k]
                  /\ portinfos[k].dupidx = dup_count - 1 =>
                        \E n \in PiAt(portinfos', portinfos[k].group,
                                      portinfos[k].index, dup_count) :
                           /\ portinfos'[n].mapped_port = portinfos[k].mapped_port
                           /\ portinfos'[n].sig_clock = portinfos[k].sig_clock
                           /\ portinfos'[n].sig_addr = portinfos[k].sig_addr
                           /\ portinfos'[n].sig_data = portinfos[k].sig_data
                           /\ portinfos'[n].sig_en = portinfos[k].sig_en]_vars

\* a second duplication step was just made for a failing read port 2: read
\* ports 0 and 1 were bound before it, and no read PortInfo is bound now
C14_Witness ==
    /\ pc = "rd_port"
    /\ cell_port_i = 0
    /\ dup_count = 3
    /\ Len(trace) > 0
    /\ trace[Len(trace)][1] = "grow"
    /\ trace[Len(trace)][2] = 2
    /\ cell.WR_PORTS = 1
    /\ \A k \in DOMAIN portinfos : portinfos[k].wrmode = 0 => portinfos[k].mapped_port = -1

\* the read data was resolved: the netlist of the grid is complete
DriversBuilt ==
    \/ pc = "remove"
    \/ pc = "done" /\ ~module.mem_present

\* the values of the high address bits, and those that addresses below
\* size take
HighValues == 0 .. Shl1(cell.ABITS - TheBram.abits) - 1
HighValuesInRange == {a \div Shl1(TheBram.abits) : a \in 0 .. cell.SIZE - 1}

\* the selectors of the Pmux d that are high when the high address bits are v
PmuxHigh(d, v) == {i \in DOMAIN d.S : d.S[i].sel = v}

\* the tiles of the slice and replica of cell c whose port k has its
\* enable gated by an addr_ok that is high when the high address bits are v
EnHigh(c, k, v) ==
    {t \in DOMAIN module.cells :
        /\ module.cells[t].grid_d = module.cells[c].grid_d
        /\ module.cells[t].dupidx = module.cells[c].dupidx
        /\ module.cells[t].ports[k].en_gate # <<>>
        /\ module.cells[t].ports[k].en_gate[1].sel = v}

\* the ports <<c, k>> of the bram cells whose enable is gated by addr_ok
GatedPorts ==
    {ck \in (DOMAIN module.cells) \X (1 .. Len(portinfos)) :
        /\ ck[2] <= Len(module.cells[ck[1]].ports)
        /\ module.cells[ck[1]].ports[ck[2]].en_gate # <<>>}

\* addr_ok of a tile compares the high address bits with the tile's index,
\* the selectors of a Pmux are those of the tiles 0, 1, ... in this order
TileIndexCompared ==
    /\ \A d \in module.drivers :
          \A i \in DOMAIN d.S : d.S[i].sel = i - 1
    /\ \A ck \in GatedPorts :
          module.cells[ck[1]].ports[ck[2]].en_gate[1].sel = module.cells[ck[1]].grid_a

\* for the high address bits v, n selectors of every Pmux are high and n
\* tiles have a non-zero gate on the enable of every gated port
HighCount(v, n) ==
    /\ \A d \in module.drivers :
          d.type = "Pmux" => Cardinality(PmuxHigh(d, v)) = n
    /\ \A ck \in GatedPorts : Cardinality(EnHigh(ck[1], ck[2], v)) = n

\* C15 as stated: for every value of a logical address wider than B.abits
\* exactly one grid_a tile has addr_ok high, the tile whose index is the
\* value of the high address bits; so per access exactly one tile's write
\* enable can be non-zero and exactly one Pmux selector is high (here for
\* the memories with size <= 2^ABITS).
C15_ExactlyOneTileSelected ==
    (DriversBuilt /\ cell.ABITS > TheBram.abits /\ cell.SIZE <= Shl1(cell.ABITS)) =>
        /\ TileIndexCompared
        /\ \A v \in HighValues : HighCount(v, 1)

\* C15 amended: for a memory with size <= 2^ABITS and ABITS > B.abits, for
\* every address below size exactly one grid_a tile has addr_ok high, the
\* tile whose index is the value of the high address bits, and for an
\* address whose high bits name no tile of the grid none has; so per access
\* at most one tile's gated write enable can be non-zero and at most one
\* Pmux selector is high, exactly one for addresses below size.
C15_OneTilePerAddressInRange ==
    (DriversBuilt /\ cell.ABITS > TheBram.abits /\ cell.SIZE <= Shl1(cell.ABITS)) =>
        /\ TileIndexCompared
        /\ \A v \in HighValuesInRange : HighCount(v, 1)
        /\ \A v \in HighValues \ HighValuesInRange : HighCount(v, 0)

\* a grid of three tiles for two high address bits, with a gated write port
\* and a Pmux of three selectors
C15_Witness ==
    /\ DriversBuilt
    /\ cell.SIZE <= Shl1(cell.ABITS)
    /\ cell.ABITS = TheBram.abits + 2
    /\ GatedPorts # {}
    /\ \E d \in module.drivers : d.type = "Pmux" /\ Len(d.S) = 3
    /\ HighValues \ HighValuesInRange # {}

\* the groups of the bram that hold write ports, and the clocks and clkpol
\* ids these groups use
WriteGroups(bram) ==
    {g \in 0 .. bram.groups - 1 : VecAt(bram.wrmode, g) # 0 /\ bram.ports[g + 1] > 0}

WriteClocks(bram) == {VecAt(bram.clocks, g) : g \in WriteGroups(bram)}
WriteClkpol(bram) == {VecAt(bram.clkpol, g) : g \in WriteGroups(bram)}

\* the largest clocks and clkpol id of the bram
MaxClocks(bram) == Max0({VecAt(bram.clocks, g) : g \in 0 .. bram.groups - 1})
MaxClkpol(bram) == Max0({VecAt(bram.clkpol, g) : g \in 0 .. bram.groups - 1})

\* the ports (group, index) of the bram
BramPorts(bram) ==
    {gi \in (0 .. bram.groups - 1) \X (0 .. Max0({bram.ports[g] : g \in DOMAIN bram.ports}) - 1) :
        gi[2] < bram.ports[gi[1] + 1]}

\* C16: after k duplication steps the PortInfo vector holds, for every
\* replica d in 0..k, exactly one PortInfo per (group, index) of the bram;
\* write-mode PortInfos carry the same cohort ids and the same binding in
\* every replica; a read-mode clocks id c > 0 not used by a write group is
\* c + d*clocks_max in replica d (a clkpol id c > 1 likewise
\* c + d*clkpol_max), so that such ids of different replicas never
\* coincide, and the ids used by write groups are not shifted.
C16_ReplicaCohorts ==
    portinfos # <<>> =>
        LET b == CurBram IN
        /\ dup_count = Cardinality(GrowSteps) + 1
        /\ Len(portinfos) = dup_count * Cardinality(BramPorts(b))
        /\ \A k \in DOMAIN portinfos :
              /\ portinfos[k].dupidx \in Replicas
              /\ <<portinfos[k].group, portinfos[k].index>> \in BramPorts(b)
        /\ \A d \in Replicas : \A gi \in BramPorts(b) :
              Cardinality(PiAt(portinfos, gi[1], gi[2], d)) = 1
        /\ \A k \in DOMAIN portinfos :
              LET pi == portinfos[k]
                  c  == VecAt(b.clocks, pi.group)
                  p  == VecAt(b.clkpol, pi.group)
              IN  IF pi.wrmode # 0
                  THEN /\ pi.clocks = c
                       /\ pi.clkpol = p
                       /\ \A n \in PiAt(portinfos, pi.group, pi.index, 0) :
                             portinfos[n] = [pi EXCEPT !.dupidx = 0]
                  ELSE /\ pi.clocks = IF c > 0 /\ c \notin WriteClocks(b)
                                      THEN c + pi.dupidx * MaxClocks(b) ELSE c
                       /\ pi.clkpol = IF p > 1 /\ p \notin WriteClkpol(b)
                                      THEN p + pi.dupidx * MaxClkpol(b) ELSE p
        /\ \A k1, k2 \in DOMAIN portinfos :
              LET p1 == portinfos[k1]
                  p2 == portinfos[k2]
              IN  (p1.wrmode = 0 /\ p2.wrmode = 0 /\ p1.dupidx # p2.dupidx) =>
                     /\ (p1.clocks > 0 /\ p1.clocks \notin WriteClocks(b))
                            => p1.clocks # p2.clocks
                     /\ (p1.clkpol > 1 /\ p1.clkpol \notin WriteClkpol(b))
                            => p1.clkpol # p2.clkpol

\* three replicas of a bram whose read group has a clocks and a clkpol id of
\* its own, the third read port and the write port bound in the third
C16_Witness ==
    /\ dup_count = 3
    /\ MaxClocks(CurBram) > 0
    /\ MaxClkpol(CurBram) > 1
    /\ \E k \in DOMAIN portinfos :
          /\ portinfos[k].wrmode = 0
          /\ portinfos[k].dupidx = 2
          /\ portinfos[k].clocks = VecAt(CurBram.clocks, portinfos[k].group)
                                       + 2 * MaxClocks(CurBram)
          /\ portinfos[k].clkpol = VecAt(CurBram.clkpol, portinfos[k].group)
                                       + 2 * MaxClkpol(CurBram)
          /\ portinfos[k].mapped_port = 2
    /\ \E k \in DOMAIN portinfos :
          portinfos[k].wrmode = 1 /\ portinfos[k].dupidx = 2 /\ portinfos[k].mapped_port = 0

\* the positions of the bound PortInfos of a clocked group
BoundClocked ==
    {k \in DOMAIN portinfos : portinfos[k].mapped_port >= 0 /\ portinfos[k].clocks # 0}

\* replace_cell is running or has returned true
InReplaceCell ==
    \/ Assigning
    \/ Stitching

\* C17: in every state reached during the assignment, after each bind and
\* after each return to the snapshot, clock_polarities[0] = false and
\* clock_polarities[1] = true, and any two bound clocked PortInfos with the
\* same clkpol id have the same effective polarity, the value of
\* clock_polarities for that id.
C17_PolaritiesConsistent ==
    InReplaceCell =>
        /\ {0, 1} \subseteq DOMAIN clock_polarities
        /\ clock_polarities[0] = FALSE
        /\ clock_polarities[1] = TRUE
        /\ {0, 1} \subseteq DOMAIN backup_clock_polarities
              => (backup_clock_polarities[0] = FALSE /\ backup_clock_polarities[1] = TRUE)
        /\ \A k \in BoundClocked :
              /\ portinfos[k].clkpol \in DOMAIN clock_polarities
              /\ portinfos[k].effective_clkpol = clock_polarities[portinfos[k].clkpol]
        /\ \A k1, k2 \in BoundClocked :
              portinfos[k1].clkpol = portinfos[k2].clkpol
                  => portinfos[k1].effective_clkpol = portinfos[k2].effective_clkpol

\* after a duplication step, a write and a read PortInfo of one configurable
\* clkpol id are bound on the falling edge, in different replicas
C17_Witness ==
    /\ Assigning
    /\ dup_count >= 2
    /\ \E k1, k2 \in BoundClocked :
          /\ portinfos[k1].wrmode = 1 /\ portinfos[k2].wrmode = 0
          /\ portinfos[k1].dupidx = 0 /\ portinfos[k2].dupidx = 1
          /\ portinfos[k1].clkpol = portinfos[k2].clkpol
          /\ portinfos[k1].clkpol > 1
          /\ ~portinfos[k1].effective_clkpol

\* the write-port loop is at write port cell_port_i
AtWritePort ==
    /\ pc = "wr_port"
    /\ cell_port_i < cell.WR_PORTS

\* the 0-based positions at or after the cursor whose PortInfo accepts the
\* write port the loop is at
CursorFits ==
    {j \in bram_port_i .. Len(portinfos) - 1 :
        WritePortFits(portinfos[j + 1], CurBram, cell_port_i)}

\* the 0-based positions of the first replica bound to write port w
WrPos(w) == {k - 1 : k \in {n \in BoundTo(1, w) : portinfos[n].dupidx = 0}}

\* C18: write ports are bound in index order by a cursor that never moves
\* backwards: the PortInfo positions bound to the write ports are strictly
\* increasing, a PortInfo passed over for an earlier write port is never
\* bound to a later one, and the candidate fails as soon as the cursor
\* reaches the end of the vector for some write port.
C18_WriteCursor ==
    /\ [](InReplaceCell =>
            \A w1, w2 \in WrPorts : \A j1 \in WrPos(w1), j2 \in WrPos(w2) :
                w1 < w2 => j1 < j2)
    /\ [](pc = "wr_port" =>
            /\ dup_count = 1
            /\ \A w \in WrPorts :
                  IF w < cell_port_i THEN Cardinality(WrPos(w)) = 1 ELSE WrPos(w) = {}
            /\ \A w \in WrPorts : \A j \in WrPos(w) :
                  /\ j < bram_port_i
                  /\ w = cell_port_i - 1 => bram_port_i = j + 1
            /\ \A j \in bram_port_i .. Len(portinfos) - 1 :
                  portinfos[j + 1].mapped_port = -1)
    /\ [][AtWritePort =>
            IF CursorFits = {}
            THEN /\ pc' = "rule"
                 /\ rule_i' = rule_i + 1
                 /\ CurMatch.name \in failed_brams'
            ELSE /\ pc' = "wr_port"
                 /\ cell_port_i' = cell_port_i + 1
                 /\ bram_port_i' = Min(CursorFits) + 1
                 /\ bram_port_i' > bram_port_i
                 /\ portinfos'[bram_port_i'].mapped_port = cell_port_i
                 /\ \A k \in DOMAIN portinfos :
                       k # bram_port_i' => portinfos'[k] = portinfos[k]]_vars

\* the cursor is past a write PortInfo that no port is bound to and that
\* accepts the write port the loop is at, and no PortInfo at or after the
\* cursor accepts it: the candidate is about to fail
C18_Witness ==
    /\ AtWritePort
    /\ cell_port_i >= 1
    /\ CursorFits = {}
    /\ \E j \in 0 .. bram_port_i - 1 :
          /\ portinfos[j + 1].mapped_port = -1
          /\ WritePortFits(portinfos[j + 1], CurBram, cell_port_i)

\* the address bits of the memory, or those of one bram cell, reach every
\* word of the memory
SizeReached ==
    \/ cell.SIZE <= Shl1(cell.ABITS)
    \/ cell.SIZE <= Shl1(TheBram.abits)

\* the number of grid_a tiles
Tiles ==
    (cell.SIZE + Shl1(TheBram.abits) - 1) \div Shl1(TheBram.abits)

\* C19: for every successful assignment of a memory whose size its address
\* bits reach, both assertions of the read-data resolution hold: for each
\* cache entry keyed by a logical read slice the collected bram output bits
\* number the slice width when no selector was collected and the slice
\* width times the number of collected selectors otherwise, with one
\* selector per grid_a tile.
C19_DoutAssertsHold ==
    SizeReached =>
        /\ pc # "abort"
        /\ pc = "dout" =>
              \A key \in DOMAIN dout_cache :
                  LET sels == Len(dout_cache[key].first)
                      bits == Len(dout_cache[key].second)
                  IN  IF sels = 0
                      THEN bits = Len(key)
                      ELSE /\ bits = Len(key) * sels
                           /\ sels = Tiles

\* the cache of a grid of two replicas and several tiles, before the read
\* data is resolved: an entry with a selector per tile, for a slice narrower
\* than the bram
C19_Witness ==
    /\ pc = "dout"
    /\ SizeReached
    /\ dup_count = 2
    /\ Tiles >= 2
    /\ \E key \in DOMAIN dout_cache :
          /\ Len(dout_cache[key].first) = Tiles
          /\ Len(key) >= 1
          /\ Len(key) < TheBram.dbits

\* C20 as stated: in every emitted bram cell of replica d, for every bound
\* clocked PortInfo of that replica whose clkpol id k is greater than 1, the
\* parameter CLKPOL<((k-1) mod clkpol_max)+1> of the cell is that
\* PortInfo's effective_clkpol, also when read ports of different replicas
\* were bound with different polarities.
C20_ClkpolParamIsEffective ==
    \A n \in DOMAIN module.cells : \A k \in BoundClocked :
        (portinfos[k].dupidx = module.cells[n].dupidx /\ portinfos[k].clkpol > 1) =>
            LET name == ((portinfos[k].clkpol - 1) % MaxClkpol(CurBram)) + 1
            IN  /\ name \in DOMAIN module.cells[n].CLKPOL
                /\ module.cells[n].CLKPOL[name] = portinfos[k].effective_clkpol

\* the read-port loop is at read port cell_port_i
AtReadPort ==
    /\ pc = "rd_port"
    /\ cell_port_i < cell.RD_PORTS

\* the read port the loop is at was bound in the round before the last
\* duplication step
BoundBeforeStep ==
    /\ AtReadPort
    /\ GrowSteps # {}
    /\ cell_port_i <= grow_read_ports_cursor

\* C21 as stated: after a duplication step the retry binds again every read
\* port that was bound in the round before the step (ports
\* 0..grow_read_ports_cursor): such a port finds a PortInfo that accepts it,
\* and is never the port at which the retry fails.
C21_RetryRebindsBoundPorts ==
    /\ [](BoundBeforeStep =>
            \E j \in 0 .. Len(portinfos) - 1 : ReadPortFits(portinfos[j + 1], cell_port_i))
    /\ [][BoundBeforeStep =>
            /\ pc' = "rd_port"
            /\ cell_port_i' = cell_port_i + 1
            /\ \E k \in DOMAIN portinfos' :
                  /\ portinfos'[k].wrmode = 0
                  /\ portinfos'[k].mapped_port = cell_port_i]_vars

\* the write-enable bits of write port w
WrEnBits(w) == extract(cell.WR_EN, w * cell.WIDTH, cell.WIDTH)

\* every write-enable bit of write port w is the constant 1
AllConstantOne(w) ==
    \A i \in 1 .. cell.WIDTH : WrEnBits(w)[i] = S1

\* the 1-based positions of the write PortInfos of a group with enable = 0
EnableFree ==
    {k \in DOMAIN portinfos : portinfos[k].wrmode = 1 /\ portinfos[k].enable = 0}

\* C22: a write PortInfo whose group has enable = 0 is accepted for a write
\* port only if every one of the port's WIDTH write-enable bits is the
\* constant 1: the enable scan of such a PortInfo succeeds exactly then and
\* collects no enable signal, a port with another enable bit leaves every
\* such PortInfo as it was, and a bound one has an empty sig_en.
C22_EnableFreeNeedsConstantOne ==
    /\ [](AtWritePort =>
            \A k \in EnableFree :
                /\ EnableStructure(portinfos[k], CurBram, cell_port_i).ok
                      <=> AllConstantOne(cell_port_i)
                /\ AllConstantOne(cell_port_i) =>
                      EnableStructure(portinfos[k], CurBram, cell_port_i).sig_en = <<>>)
    /\ [](InReplaceCell =>
            \A k \in EnableFree :
                portinfos[k].mapped_port >= 0 =>
                    /\ AllConstantOne(portinfos[k].mapped_port)
                    /\ portinfos[k].sig_en = <<>>)
    /\ [][(AtWritePort /\ ~AllConstantOne(cell_port_i)) =>
            \A k \in EnableFree :
                k \in DOMAIN portinfos' => portinfos'[k] = portinfos[k]]_vars

\* a mapping that reached the stitcher with a write port of two constant-1
\* enable bits bound to a write PortInfo of a group with enable = 0
C22_Witness ==
    /\ Stitching
    /\ cell.WIDTH >= 2
    /\ \E k \in EnableFree :
          /\ portinfos[k].mapped_port >= 0
          /\ AllConstantOne(portinfos[k].mapped_port)
          /\ portinfos[k].sig_en = <<>>
          /\ portinfos[k].sig_data # <<>>

====
